---- MODULE Spec2Model ----
(***************************************************************************)
(* Model of the logcat viewer: the webview filter engine                   *)
(* (parseFilterTerms / matchesFilter), the line parser of the extension    *)
(* (parseLogLine), the live capture session (extension host process        *)
(* handling, message passing and the webview's streaming log buffer) and   *)
(* the webview's rendering.                                                *)
(*                                                                         *)
(* A JavaScript string is a sequence of one-character strings.  A value     *)
(* that is `undefined' or `null' in the program is the one-element          *)
(* sequence Undefined / Null, which is not a sequence of characters.        *)
(***************************************************************************)
EXTENDS Integers, Sequences, FiniteSets, TLC

VARIABLES
    \* ---- filter engine run (one parse, one match) ----
    fExpr,          \* the filter expression typed by the user
    fValue,         \* the value (a tag or a raw line) the terms are tested on
    fTerms,         \* result of parseFilterTerms(fExpr)
    fResult,        \* result of matchesFilter(fValue, fTerms): "none" before the call
    fpc,            \* position of the run: "parse", "match", "done"
    \* ---- line parser run (one call of parseLogLine) ----
    pLine,          \* the line given to parseLogLine
    pNumber,        \* the line number given to parseLogLine
    pEntry,         \* the LogEntry returned
    ppc,            \* position of the run: "parse", "done", "formatted" for a
                    \* line; "text", "entries" and the name of the function
                    \* applied to the entries for a text
    pFormatted,     \* the string returned by formatLogEntry
    pText,          \* argument of parseLogcat: the text of a document
    pEntries,       \* the LogEntry[] returned by parseLogcat
    pArg,           \* second argument of the sort or filter function applied:
                    \* "asc", "desc" or the minimum priority
    pResult,        \* the LogEntry[] that function returned
    pNewDoc,        \* the text applySortToDocument replaces the document by, or
                    \* the content of the document applyFilterToDocument opens
    \* ---- live capture to an editor (startCaptureToEditor) ----
    edProcess,      \* the capture process: "none", "running", "killed" (kill() was
                    \* called, 'close' not raised yet), "closed" ('close' raised)
    liveDocument,   \* liveDocument and liveEditor are set (cleanup nulls both)
    buffer,         \* the closure variable buffer: the chunks not flushed yet
    updateTimeout,  \* the closure variable updateTimeout is not null
    timerArmed,     \* the timer of setTimeout(flushBuffer, 100) has not fired yet
    edits,          \* the calls of applyEdit that have not been applied yet
    docText,        \* the live document after its header: chunks and the footer
    chunksOut,      \* number of 'data' events raised for the capture process
    \* ---- extension host ----
    view,           \* which webview hosts the session: "sidebar" or "panel"
    adbProcess,     \* module variable adbProcess: 0 (null) or index into procs
    procs,          \* every ChildProcess object spawned so far
    toHost,         \* webview -> host messages in flight (FIFO)
    toView,         \* host -> webview messages in flight (FIFO)
    \* ---- webview ----
    allLogs,        \* the streaming buffer (entries)
    isRunning,      \* the view's running flag
    statusText,     \* text of the status element
    renderPending,  \* sidebar: a requestAnimationFrame(renderLogs) is outstanding
    levelFilter,    \* value of the level <select>
    tagFilter,      \* value of the tag filter input
    searchFilter,   \* value of the search input
    shown,          \* raw lines currently in the log container
    logCount,       \* <<filtered, total>> shown in the count element
    autoScroll,     \* the "lock to bottom" checkbox
    scrollGap,      \* how far the log container is scrolled from its bottom:
                    \* "bottom" (0), "near" (at most 50 px), "far"
    addPc,          \* position inside addLogs: "idle" (not in it), "pushed", "trimmed"
    chunk,          \* the argument of the addLogs call in progress
    \* ---- history (not program state) ----
    appended,       \* records made from all non-blank lines appended since the last clear
    emitted,        \* number of data events the capture processes have raised
    settled,        \* the buffer as the last completed handler left it
    lastOp          \* what the last step did, for the steps the properties are
                    \* about: a start, stop, clear, append or render; "other" otherwise

filterVars == <<fExpr, fValue, fTerms, fResult, fpc>>
parseVars == <<pLine, pNumber, pEntry, ppc, pFormatted, pText, pEntries, pArg, pResult,
               pNewDoc>>
editorVars == <<edProcess, liveDocument, buffer, updateTimeout, timerArmed, edits, docText,
                chunksOut>>
pureVars == <<filterVars, parseVars, editorVars>>
hostVars == <<view, adbProcess, procs, toHost, toView>>
webVars == <<allLogs, isRunning, statusText, renderPending, levelFilter,
             tagFilter, searchFilter, shown, logCount>>
scrollVars == <<autoScroll, scrollGap>>
stepVars == <<addPc, chunk>>
histVars == <<appended, emitted, lastOp>>
vars == <<pureVars, hostVars, webVars, scrollVars, stepVars, histVars, settled>>

-----------------------------------------------------------------------------
(* JavaScript values and string primitives *)

Undefined == <<"undefined">>
Null == <<"null">>

\* String.prototype.trim / \s : the white space characters of the model
WhiteSpace == {" ", "\t", "\n", "\r"}

\* line terminators, which `.' does not match
LineTerminators == {"\n", "\r"}

UpperChars == <<"A","B","C","D","E","F","G","H","I","J","K","L","M",
                "N","O","P","Q","R","S","T","U","V","W","X","Y","Z">>
LowerChars == <<"a","b","c","d","e","f","g","h","i","j","k","l","m",
                "n","o","p","q","r","s","t","u","v","w","x","y","z">>

LowerChar(c) ==
    IF \E i \in 1..26 : UpperChars[i] = c
    THEN LowerChars[CHOOSE i \in 1..26 : UpperChars[i] = c]
    ELSE c

\* String.prototype.toLowerCase
toLowerCase(s) == [i \in 1..Len(s) |-> LowerChar(s[i])]

\* s.slice(start) / s.slice(start, end) with JavaScript's index rules
\* (0-based, negative indexes count from the end, clamped to the length)
RelIndex(k, n) == IF k < 0 THEN (IF n + k < 0 THEN 0 ELSE n + k)
                  ELSE (IF k > n THEN n ELSE k)

slice2(s, start, end) ==
    LET from == RelIndex(start, Len(s))
        to == RelIndex(end, Len(s))
    IN IF from >= to THEN <<>> ELSE SubSeq(s, from + 1, to)

slice(s, start) == slice2(s, start, Len(s))

\* s.startsWith(p), s.endsWith(p), s.includes(p)
startsWith(s, p) == Len(p) <= Len(s) /\ SubSeq(s, 1, Len(p)) = p
endsWith(s, p) == Len(p) <= Len(s) /\ SubSeq(s, Len(s) - Len(p) + 1, Len(s)) = p
includes(s, p) ==
    \E i \in 0..(Len(s) - Len(p)) : SubSeq(s, i + 1, i + Len(p)) = p

\* String.prototype.trim
trim(s) ==
    LET solid == {k \in 1..Len(s) : s[k] \notin WhiteSpace}
    IN IF solid = {} THEN <<>>
       ELSE SubSeq(s, CHOOSE k \in solid : \A o \in solid : k <= o,
                      CHOOSE k \in solid : \A o \in solid : k >= o)

\* index of the first occurrence of character c at or after i (past the end
\* of s if there is none)
RECURSIVE indexFrom(_, _, _)
indexFrom(s, i, c) ==
    IF i <= Len(s) /\ s[i] # c THEN indexFrom(s, i + 1, c) ELSE i

\* s.split(sep) for a one-character separator: one piece more than there
\* are separators in s
RECURSIVE splitFrom(_, _, _)
splitFrom(s, i, sep) ==
    LET q == indexFrom(s, i, sep)
    IN IF q > Len(s) THEN <<SubSeq(s, i, Len(s))>>
       ELSE <<SubSeq(s, i, q - 1)>> \o splitFrom(s, q + 1, sep)

split(s, sep) == splitFrom(s, 1, sep)

-----------------------------------------------------------------------------
(* Regular expressions built by new RegExp(pattern, 'i').  The patterns of  *)
(* the model are sequences of pattern characters: `.' matches any character *)
(* but a line terminator, `(' opens a group and every other character       *)
(* matches itself, case-insensitively.  No pattern of the model closes a    *)
(* group, so a pattern that holds `(' does not compile (SyntaxError).       *)

regexCompiles(pattern) == \A i \in 1..Len(pattern) : pattern[i] # "("

\* RegExp.prototype.test without the g/y flags: unanchored search
regexTest(pattern, value) ==
    LET regexCharMatches(p, c) ==
            IF p = "." THEN c \notin LineTerminators
            ELSE LowerChar(p) = LowerChar(c)
    IN \E i \in 0..(Len(value) - Len(pattern)) :
           \A k \in 1..Len(pattern) : regexCharMatches(pattern[k], value[i + k])

-----------------------------------------------------------------------------
(* Filter term engine of the panel webview *)

TextTerm(text, negated) == [regex |-> Undefined, text |-> text, negated |-> negated]
RegexTerm(pattern, negated) == [regex |-> pattern, text |-> Undefined, negated |-> negated]

\* the `null' the map callback returns for a segment that yields no term
NullTerm == [regex |-> Undefined, text |-> Undefined, negated |-> FALSE]

\* parseFilterTerm keeping the term of a lone `-' (not the program's)
parseFilterTermKeepEmpty(segment) ==
    LET t0 == trim(segment)
        isNegated == startsWith(t0, <<"-">>)
        term == IF isNegated THEN slice(t0, 1) ELSE t0
    IN IF t0 = <<>> THEN NullTerm
       ELSE IF startsWith(term, <<"/">>) /\ endsWith(term, <<"/">>) /\ Len(term) > 2
                 /\ regexCompiles(slice2(term, 1, -1))
            THEN RegexTerm(slice2(term, 1, -1), isNegated)
       ELSE TextTerm(toLowerCase(term), isNegated)

\* parseFilterTerm whose catch branch keeps the pattern without its slashes
\* (not the program's)
parseFilterTermBarePattern(segment) ==
    LET t0 == trim(segment)
        isNegated == startsWith(t0, <<"-">>)
        term == IF isNegated THEN slice(t0, 1) ELSE t0
    IN IF t0 = <<>> \/ term = <<>> THEN NullTerm
       ELSE IF startsWith(term, <<"/">>) /\ endsWith(term, <<"/">>) /\ Len(term) > 2
            THEN IF regexCompiles(slice2(term, 1, -1))
                 THEN RegexTerm(slice2(term, 1, -1), isNegated)
                 ELSE TextTerm(toLowerCase(slice2(term, 1, -1)), isNegated)
       ELSE TextTerm(toLowerCase(term), isNegated)

\* the callback of filterStr.split(',').map(...): a term, or null
parseFilterTerm(segment) ==
    LET t0 == trim(segment)
        isNegated == startsWith(t0, <<"-">>)
        term == IF isNegated THEN slice(t0, 1) ELSE t0
    IN IF t0 = <<>> THEN NullTerm
       ELSE IF term = <<>> THEN NullTerm
       ELSE IF startsWith(term, <<"/">>) /\ endsWith(term, <<"/">>) /\ Len(term) > 2
            THEN LET pattern == slice2(term, 1, -1)
                 IN IF regexCompiles(pattern)
                    THEN RegexTerm(pattern, isNegated)
                    ELSE TextTerm(toLowerCase(term), isNegated)
       ELSE TextTerm(toLowerCase(term), isNegated)

parseFilterTerms(filterStr) ==
    IF trim(filterStr) = <<>> THEN <<>>
    ELSE LET segments == split(filterStr, ",")
             mapped == [i \in 1..Len(segments) |-> parseFilterTerm(segments[i])]
             Truthy(t) == t # NullTerm
         IN SelectSeq(mapped, Truthy)

\* term.regex ? term.regex.test(value) : valueLower.includes(term.text)
termMatches(term, value) ==
    IF term.regex # Undefined
    THEN regexTest(term.regex, value)
    ELSE includes(toLowerCase(value), term.text)

\* matchesFilter as a single pass: a matching positive term accepts the value
\* before the negated terms are looked at
matchesFilterPositiveFirst(value, terms) ==
    IF Len(terms) = 0 THEN TRUE
    ELSE IF \E i \in 1..Len(terms) : ~terms[i].negated /\ termMatches(terms[i], value)
         THEN TRUE
    ELSE IF \E i \in 1..Len(terms) : terms[i].negated /\ termMatches(terms[i], value)
         THEN FALSE
    ELSE \A i \in 1..Len(terms) : terms[i].negated

\* matchesFilter requiring every positive term to match (AND instead of OR)
matchesFilterAllPositive(value, terms) ==
    LET IsPositive(t) == ~t.negated
        positiveTerms == SelectSeq(terms, IsPositive)
    IN IF \E i \in 1..Len(terms) : terms[i].negated /\ termMatches(terms[i], value)
       THEN FALSE
       ELSE \A i \in 1..Len(positiveTerms) : termMatches(positiveTerms[i], value)

\* matchesFilter decided by the first term of the list that matches the
\* value (not the program's)
matchesFilterFirstHit(value, terms) ==
    LET hits == {i \in 1..Len(terms) : termMatches(terms[i], value)}
    IN IF Len(terms) = 0 THEN TRUE
       ELSE IF hits = {} THEN \A i \in 1..Len(terms) : terms[i].negated
       ELSE ~terms[CHOOSE i \in hits : \A o \in hits : i <= o].negated

\* the first-pass loop over negativeTerms, the second over positiveTerms
matchesFilter(value, terms) ==
    LET IsPositive(t) == ~t.negated
        IsNegative(t) == t.negated
        positiveTerms == SelectSeq(terms, IsPositive)
        negativeTerms == SelectSeq(terms, IsNegative)
    IN IF Len(terms) = 0 THEN TRUE
       ELSE IF \E i \in 1..Len(negativeTerms) : termMatches(negativeTerms[i], value)
            THEN FALSE
       ELSE IF Len(positiveTerms) = 0 THEN TRUE
       ELSE \E i \in 1..Len(positiveTerms) : termMatches(positiveTerms[i], value)

-----------------------------------------------------------------------------
(* Line parsing of the webviews (parseLine) *)

Digits == {"0", "1", "2", "3", "4", "5", "6", "7", "8", "9"}

\* the class [VDIWEF] of logcatRegex and of the fallback pattern
PriorityLetters == {"V", "D", "I", "W", "E", "F"}

\* index of the first character at or after i that is not in set (past the
\* end of s if there is none)
RECURSIVE skipSet(_, _, _)
skipSet(s, i, set) ==
    IF i <= Len(s) /\ s[i] \in set THEN skipSet(s, i + 1, set) ELSE i

isDigitAt(s, i) == i <= Len(s) /\ s[i] \in Digits
isCharAt(s, i, c) == i <= Len(s) /\ s[i] = c

NoMatch == [matched |-> FALSE]

\* line.match(logcatRegex) with
\*   /^(\d{2}-\d{2}\s+\d{2}:\d{2}:\d{2}\.\d{3})\s+(\d+)\s+(\d+)\s+([VDIWEF])\s+([^:]+):\s*(.*)$/
\* Every quantifier is greedy; the only place where the matcher gives a
\* character back is \s+ before ([^:]+) when the colon follows the white
\* space directly, and \s* before (.*) never has to (white space that is a
\* line terminator is taken by \s*, a later line terminator fails the match).
matchLogcatRegex(s) ==
    LET b == skipSet(s, 6, WhiteSpace)         \* start of HH
        c == b + 12                            \* first character after the .mmm
        d == skipSet(s, c, WhiteSpace)         \* start of pid
        e == skipSet(s, d, Digits)
        f == skipSet(s, e, WhiteSpace)         \* start of tid
        g == skipSet(s, f, Digits)
        h == skipSet(s, g, WhiteSpace)         \* the priority letter
        j == h + 1
        k == skipSet(s, j, WhiteSpace)         \* first character after the white space
        q == indexFrom(s, k, ":")              \* first colon after the priority
        tagFrom == IF q > k THEN k ELSE k - 1
        t == skipSet(s, q + 1, WhiteSpace)     \* start of the message
    IN IF /\ isDigitAt(s, 1) /\ isDigitAt(s, 2) /\ isCharAt(s, 3, "-")
          /\ isDigitAt(s, 4) /\ isDigitAt(s, 5)
          /\ b > 6
          /\ isDigitAt(s, b) /\ isDigitAt(s, b + 1) /\ isCharAt(s, b + 2, ":")
          /\ isDigitAt(s, b + 3) /\ isDigitAt(s, b + 4) /\ isCharAt(s, b + 5, ":")
          /\ isDigitAt(s, b + 6) /\ isDigitAt(s, b + 7) /\ isCharAt(s, b + 8, ".")
          /\ isDigitAt(s, b + 9) /\ isDigitAt(s, b + 10) /\ isDigitAt(s, b + 11)
          /\ d > c /\ e > d /\ f > e /\ g > f /\ h > g
          /\ h <= Len(s) /\ s[h] \in PriorityLetters
          /\ k > j
          /\ q <= Len(s)
          /\ (q > k \/ k - j >= 2)
          /\ \A i \in t..Len(s) : s[i] \notin LineTerminators
       THEN [matched |-> TRUE,
             m1 |-> SubSeq(s, 1, b + 11),
             m2 |-> SubSeq(s, d, e - 1),
             m3 |-> SubSeq(s, f, g - 1),
             m4 |-> <<s[h]>>,
             m5 |-> SubSeq(s, tagFrom, q - 1),
             m6 |-> SubSeq(s, t, Len(s))]
       ELSE NoMatch

\* line.match(/\s([VDIWEF])\s/): the leftmost letter between two white spaces
matchPriorityToken(s) ==
    LET Hit(i) == /\ s[i] \in WhiteSpace
                  /\ s[i + 1] \in PriorityLetters
                  /\ s[i + 2] \in WhiteSpace
        hits == {i \in 1..(Len(s) - 2) : Hit(i)}
    IN IF hits = {} THEN NoMatch
       ELSE LET first == CHOOSE i \in hits : \A o \in hits : i <= o
            IN [matched |-> TRUE, m1 |-> <<s[first + 1]>>]

LogRecord(raw, timestamp, pid, tid, priority, tag, message) ==
    [raw |-> raw, timestamp |-> timestamp, pid |-> pid, tid |-> tid,
     priority |-> priority, tag |-> tag, message |-> message]

\* parseLine of the two webviews; they differ in the priority of a line
\* that carries no priority token: 'V' in the sidebar, null in the panel
parseLine(v, line) ==
    LET match == matchLogcatRegex(line)
        priorityMatch == matchPriorityToken(line)
    IN IF match.matched
       THEN LogRecord(line, match.m1, match.m2, match.m3, match.m4,
                      trim(match.m5), match.m6)
       ELSE LogRecord(line, Undefined, Undefined, Undefined,
                      IF priorityMatch.matched THEN priorityMatch.m1
                      ELSE IF v = "sidebar" THEN <<"V">> ELSE Null,
                      <<>>, Undefined)

-----------------------------------------------------------------------------
(* The line parser of the extension (logcatParser.ts): the five format     *)
(* patterns and parseLogLine.  A match is the sequence of its captured      *)
(* groups.  Every quantifier of the patterns is greedy and, but for \s+     *)
(* before ([^:]+), is followed by something its own characters cannot       *)
(* match, so that the matcher never gives a character back.                *)

\* the class [VDIWEFS]
ParserPriorityLetters == {"V", "D", "I", "W", "E", "F", "S"}

\* index of the first character at or after i that is in set (past the end
\* of s if there is none)
RECURSIVE skipUntil(_, _, _)
skipUntil(s, i, set) ==
    IF i <= Len(s) /\ s[i] \notin set THEN skipUntil(s, i + 1, set) ELSE i

\* (\d{2}-\d{2}\s+\d{2}:\d{2}:\d{2}\.\d{3}) tried at index i: the index of
\* the first character after the match, 0 if there is no match
stampEnd(s, i) ==
    LET b == skipSet(s, i + 5, WhiteSpace)
    IN IF /\ i >= 1
          /\ isDigitAt(s, i) /\ isDigitAt(s, i + 1) /\ isCharAt(s, i + 2, "-")
          /\ isDigitAt(s, i + 3) /\ isDigitAt(s, i + 4)
          /\ b > i + 5
          /\ isDigitAt(s, b) /\ isDigitAt(s, b + 1) /\ isCharAt(s, b + 2, ":")
          /\ isDigitAt(s, b + 3) /\ isDigitAt(s, b + 4) /\ isCharAt(s, b + 5, ":")
          /\ isDigitAt(s, b + 6) /\ isDigitAt(s, b + 7) /\ isCharAt(s, b + 8, ".")
          /\ isDigitAt(s, b + 9) /\ isDigitAt(s, b + 10) /\ isDigitAt(s, b + 11)
       THEN b + 12
       ELSE 0

\* \s*(.*)$ tried at index i: the index where (.*) starts, 0 if there is no
\* match (a line terminator that \s* does not take stops `.' before the end)
restFrom(s, i) ==
    LET t == skipSet(s, i, WhiteSpace)
    IN IF \A k \in t..Len(s) : s[k] \notin LineTerminators THEN t ELSE 0

Matched(groups) == [matched |-> TRUE, groups |-> groups]

\* STANDARD_PATTERN
\*   /^(\d{2}-\d{2}\s+\d{2}:\d{2}:\d{2}\.\d{3})\s+(\d+)\s+(\d+)\s+([VDIWEFS])\s+([^:]+):\s*(.*)$/
\* When the colon follows the white space after the priority directly, \s+
\* gives its last character to ([^:]+).
matchStandard(s) ==
    LET c == stampEnd(s, 1)
        d == skipSet(s, c, WhiteSpace)         \* start of pid
        e == skipSet(s, d, Digits)
        f == skipSet(s, e, WhiteSpace)         \* start of tid
        g == skipSet(s, f, Digits)
        h == skipSet(s, g, WhiteSpace)         \* the priority letter
        k == skipSet(s, h + 1, WhiteSpace)     \* first character after the white space
        q == indexFrom(s, k, ":")              \* first colon after the priority
        tagFrom == IF q > k THEN k ELSE k - 1
        t == restFrom(s, q + 1)
    IN IF /\ c > 0 /\ d > c /\ e > d /\ f > e /\ g > f /\ h > g
          /\ h <= Len(s) /\ s[h] \in ParserPriorityLetters
          /\ k > h + 1
          /\ q <= Len(s)
          /\ (q > k \/ k - h >= 3)
          /\ t > 0
       THEN Matched(<<SubSeq(s, 1, c - 1), SubSeq(s, d, e - 1), SubSeq(s, f, g - 1),
                      <<s[h]>>, SubSeq(s, tagFrom, q - 1), SubSeq(s, t, Len(s))>>)
       ELSE NoMatch

\* BRIEF_PATTERN  /^([VDIWEFS])\/([^\(]+)\(\s*(\d+)\):\s*(.*)$/
matchBrief(s) ==
    LET q == indexFrom(s, 3, "(")              \* first parenthesis
        a == skipSet(s, q + 1, WhiteSpace)     \* start of pid
        b == skipSet(s, a, Digits)
        t == restFrom(s, b + 2)
    IN IF /\ Len(s) >= 2 /\ s[1] \in ParserPriorityLetters /\ s[2] = "/"
          /\ q > 3 /\ q <= Len(s)
          /\ b > a
          /\ isCharAt(s, b, ")") /\ isCharAt(s, b + 1, ":")
          /\ t > 0
       THEN Matched(<<<<s[1]>>, SubSeq(s, 3, q - 1), SubSeq(s, a, b - 1),
                      SubSeq(s, t, Len(s))>>)
       ELSE NoMatch

\* TIME_PATTERN
\*   /^(\d{2}-\d{2}\s+\d{2}:\d{2}:\d{2}\.\d{3})\s+([VDIWEFS])\/([^\(]+)\(\s*(\d+)\):\s*(.*)$/
matchTime(s) ==
    LET c == stampEnd(s, 1)
        j == skipSet(s, c, WhiteSpace)         \* the priority letter
        q == indexFrom(s, j + 2, "(")
        a == skipSet(s, q + 1, WhiteSpace)
        b == skipSet(s, a, Digits)
        t == restFrom(s, b + 2)
    IN IF /\ c > 0 /\ j > c
          /\ j <= Len(s) /\ s[j] \in ParserPriorityLetters
          /\ isCharAt(s, j + 1, "/")
          /\ q > j + 2 /\ q <= Len(s)
          /\ b > a
          /\ isCharAt(s, b, ")") /\ isCharAt(s, b + 1, ":")
          /\ t > 0
       THEN Matched(<<SubSeq(s, 1, c - 1), <<s[j]>>, SubSeq(s, j + 2, q - 1),
                      SubSeq(s, a, b - 1), SubSeq(s, t, Len(s))>>)
       ELSE NoMatch

\* TAG_PATTERN  /^([VDIWEFS])\/([^:]+):\s*(.*)$/
matchTag(s) ==
    LET q == indexFrom(s, 3, ":")
        t == restFrom(s, q + 1)
    IN IF /\ Len(s) >= 2 /\ s[1] \in ParserPriorityLetters /\ s[2] = "/"
          /\ q > 3 /\ q <= Len(s)
          /\ t > 0
       THEN Matched(<<<<s[1]>>, SubSeq(s, 3, q - 1), SubSeq(s, t, Len(s))>>)
       ELSE NoMatch

\* LONG_HEADER_PATTERN
\*   /^\[\s*(\d{2}-\d{2}\s+\d{2}:\d{2}:\d{2}\.\d{3})\s+(\d+):\s*(\d+)\s+([VDIWEFS])\/([^\s\]]+)\s*\]$/
matchLongHeader(s) ==
    LET i == skipSet(s, 2, WhiteSpace)         \* start of the time stamp
        c == stampEnd(s, i)
        a == skipSet(s, c, WhiteSpace)         \* start of pid
        b == skipSet(s, a, Digits)             \* the colon
        d == skipSet(s, b + 1, WhiteSpace)     \* start of tid
        e == skipSet(s, d, Digits)
        f == skipSet(s, e, WhiteSpace)         \* the priority letter
        g == skipUntil(s, f + 2, WhiteSpace \cup {"]"})
        h == skipSet(s, g, WhiteSpace)         \* the closing bracket
    IN IF /\ isCharAt(s, 1, "[")
          /\ c > 0 /\ a > c /\ b > a
          /\ isCharAt(s, b, ":")
          /\ e > d /\ f > e
          /\ f <= Len(s) /\ s[f] \in ParserPriorityLetters
          /\ isCharAt(s, f + 1, "/")
          /\ g > f + 2
          /\ h = Len(s) /\ s[h] = "]"
       THEN Matched(<<SubSeq(s, i, c - 1), SubSeq(s, a, b - 1), SubSeq(s, d, e - 1),
                      <<s[f]>>, SubSeq(s, f + 2, g - 1)>>)
       ELSE NoMatch

\* the number a string of digits denotes
RECURSIVE numberOf(_)
numberOf(s) ==
    IF s = <<>> THEN 0
    ELSE LET digit == CHOOSE n \in 0..9 :
                          <<"0", "1", "2", "3", "4", "5", "6", "7", "8", "9">>[n + 1] = s[Len(s)]
         IN 10 * numberOf(SubSeq(s, 1, Len(s) - 1)) + digit

\* parseInt(s, 10) of a string of digits.  A number held by a record is
\* written as its decimal numeral: the digits without the leading zeros.
parseInt(s) ==
    LET first == skipSet(s, 1, {"0"})
    IN IF first > Len(s) THEN <<"0">> ELSE SubSeq(s, first, Len(s))

\* parseTimestamp: the arguments given to new Date() after the current year
\* (month index, day, hours, minutes, seconds, milliseconds)
parseTimestamp(timestampStr) ==
    LET t0 == trim(timestampStr)
        sp == skipUntil(t0, 1, WhiteSpace)
        tp == skipSet(t0, sp, WhiteSpace)
        datePart == SubSeq(t0, 1, sp - 1)
        timePart == SubSeq(t0, tp, skipUntil(t0, tp, WhiteSpace) - 1)
        monthDay == split(datePart, "-")
        hms == split(timePart, ":")
        secondsMs == split(hms[3], ".")
    IN <<numberOf(monthDay[1]) - 1, numberOf(monthDay[2]),
         numberOf(hms[1]), numberOf(hms[2]),
         numberOf(secondsMs[1]), numberOf(secondsMs[2])>>

\* const entry: LogEntry = { raw: line, lineNumber: lineNumber }
LogEntry(line, lineNumber) ==
    [raw |-> line, lineNumber |-> lineNumber,
     timestamp |-> Undefined, timestampStr |-> Undefined,
     pid |-> Undefined, tid |-> Undefined, priority |-> Undefined,
     tag |-> Undefined, message |-> Undefined]

\* the assignments of the branch of parseLogLine taken for a match m of
\* the given format
filledEntry(format, entry, m) ==
    CASE format = "standard" ->
           [entry EXCEPT !.timestampStr = m[1], !.timestamp = parseTimestamp(m[1]),
                         !.pid = parseInt(m[2]), !.tid = parseInt(m[3]),
                         !.priority = m[4], !.tag = trim(m[5]), !.message = m[6]]
      [] format = "brief" ->
           [entry EXCEPT !.priority = m[1], !.tag = trim(m[2]),
                         !.pid = parseInt(m[3]), !.message = m[4]]
      [] format = "time" ->
           [entry EXCEPT !.timestampStr = m[1], !.timestamp = parseTimestamp(m[1]),
                         !.priority = m[2], !.tag = trim(m[3]),
                         !.pid = parseInt(m[4]), !.message = m[5]]
      [] format = "tag" ->
           [entry EXCEPT !.priority = m[1], !.tag = trim(m[2]), !.message = m[3]]
      [] format = "long" ->
           [entry EXCEPT !.timestampStr = m[1], !.timestamp = parseTimestamp(m[1]),
                         !.pid = parseInt(m[2]), !.tid = parseInt(m[3]),
                         !.priority = m[4], !.tag = trim(m[5])]

\* parseLogLine trying the tag format before the brief format
parseLogLineTagFirst(line, lineNumber) ==
    LET entry == LogEntry(line, lineNumber)
    IN IF matchStandard(line).matched
       THEN filledEntry("standard", entry, matchStandard(line).groups)
       ELSE IF matchTag(line).matched
       THEN filledEntry("tag", entry, matchTag(line).groups)
       ELSE IF matchBrief(line).matched
       THEN filledEntry("brief", entry, matchBrief(line).groups)
       ELSE IF matchTime(line).matched
       THEN filledEntry("time", entry, matchTime(line).groups)
       ELSE IF matchLongHeader(line).matched
       THEN filledEntry("long", entry, matchLongHeader(line).groups)
       ELSE entry

\* parseLogLine giving an unparsed line as the message
parseLogLineRawMessage(line, lineNumber) ==
    LET entry == LogEntry(line, lineNumber)
    IN IF matchStandard(line).matched
       THEN filledEntry("standard", entry, matchStandard(line).groups)
       ELSE IF matchBrief(line).matched
       THEN filledEntry("brief", entry, matchBrief(line).groups)
       ELSE IF matchTime(line).matched
       THEN filledEntry("time", entry, matchTime(line).groups)
       ELSE IF matchTag(line).matched
       THEN filledEntry("tag", entry, matchTag(line).groups)
       ELSE IF matchLongHeader(line).matched
       THEN filledEntry("long", entry, matchLongHeader(line).groups)
       ELSE [entry EXCEPT !.message = line]

\* parseLogLine: the standard pattern is tried first, then brief, time, tag
\* and the long header; each branch returns
parseLogLine(line, lineNumber) ==
    LET entry == LogEntry(line, lineNumber)
    IN IF matchStandard(line).matched
       THEN filledEntry("standard", entry, matchStandard(line).groups)
       ELSE IF matchBrief(line).matched
       THEN filledEntry("brief", entry, matchBrief(line).groups)
       ELSE IF matchTime(line).matched
       THEN filledEntry("time", entry, matchTime(line).groups)
       ELSE IF matchTag(line).matched
       THEN filledEntry("tag", entry, matchTag(line).groups)
       ELSE IF matchLongHeader(line).matched
       THEN filledEntry("long", entry, matchLongHeader(line).groups)
       ELSE entry

\* no call of parseLogLine in progress
ParserAtRest ==
    /\ pLine = <<>>
    /\ pNumber = 0
    /\ pEntry = LogEntry(<<>>, 0)
    /\ ppc = "idle"
    /\ pFormatted = <<>>
    /\ pText = <<>>
    /\ pEntries = <<>>
    /\ pArg = "none"
    /\ pResult = <<>>
    /\ pNewDoc = <<>>

\* no live capture to an editor: adbProcess, liveDocument and liveEditor of
\* that module are null
EditorAtRest ==
    /\ edProcess = "none"
    /\ liveDocument = FALSE
    /\ buffer = <<>>
    /\ updateTimeout = FALSE
    /\ timerArmed = FALSE
    /\ edits = <<>>
    /\ docText = <<>>
    /\ chunksOut = 0

-----------------------------------------------------------------------------
(* The streaming buffer of the webviews: addLogs, clearLogs, rendering *)

\* capacity and trimTo of the buffer, scaled down from 30000 / 25000
\* (sidebar) and 50000 / 40000 (panel)
SidebarCapacity == 3
SidebarTrimTo == 2
PanelCapacity == 4
PanelTrimTo == 3

\* number of filtered records rendered, scaled down from 3000 / 5000
SidebarRenderCap == 2
PanelRenderCap == 3

Capacity(v) == IF v = "sidebar" THEN SidebarCapacity ELSE PanelCapacity
TrimTo(v) == IF v = "sidebar" THEN SidebarTrimTo ELSE PanelTrimTo
RenderCap(v) == IF v = "sidebar" THEN SidebarRenderCap ELSE PanelRenderCap

\* text.split('\n').filter(line => line.trim()).map(parseLine)
newLogs(v, text) ==
    LET NonBlank(line) == trim(line) # <<>>
        lines == SelectSeq(split(text, "\n"), NonBlank)
    IN [i \in 1..Len(lines) |-> parseLine(v, lines[i])]

\* addLogs without the trimming step
addLogsNoTrim(v, logs, text) == logs \o newLogs(v, text)

\* addLogs trimming from the wrong end: keeps the oldest trimTo records
addLogsKeepOldest(v, logs, text) ==
    LET pushed == logs \o newLogs(v, text)
    IN IF Len(pushed) > Capacity(v) THEN slice2(pushed, 0, TrimTo(v)) ELSE pushed

\* the value of allLogs after addLogs(text):
\*   if (newLogs.length === 0) return;
\*   allLogs.push(...newLogs);
\*   if (allLogs.length > capacity) allLogs = allLogs.slice(-trimTo);
addLogs(v, logs, text) ==
    LET pushed == logs \o newLogs(v, text)
    IN IF Len(newLogs(v, text)) = 0 THEN logs
       ELSE IF Len(pushed) > Capacity(v) THEN slice(pushed, 0 - TrimTo(v))
       ELSE pushed

\* const priorityLevels = { V: 0, D: 1, I: 2, W: 3, E: 4, F: 5 }
priorityLevels ==
    (<<"V">> :> 0) @@ (<<"D">> :> 1) @@ (<<"I">> :> 2) @@
    (<<"W">> :> 3) @@ (<<"E">> :> 4) @@ (<<"F">> :> 5)

\* priorityLevels[priority] < minLevel; a priority that is no key of the
\* object gives undefined, and undefined < minLevel is false
belowLevel(priority, minLevel) ==
    IF priority \in DOMAIN priorityLevels
    THEN priorityLevels[priority] < minLevel
    ELSE FALSE

\* the options of the level <select>
LevelOptions(v) ==
    IF v = "sidebar" THEN {"V", "D", "I", "W", "E"}
    ELSE {"V", "D", "I", "W", "E", "F"}

\* the predicate of allLogs.filter(...) in getFilteredLogs
passesFilters(v, log, level, tagF, searchF) ==
    LET minLevel == priorityLevels[<<level>>]
    IN IF belowLevel(log.priority, minLevel) THEN FALSE
       ELSE IF v = "sidebar"
       THEN /\ ~(tagF # <<>> /\ (log.tag = <<>> \/
                    ~includes(toLowerCase(log.tag), toLowerCase(tagF))))
            /\ ~(searchF # <<>> /\ ~includes(toLowerCase(log.raw), toLowerCase(searchF)))
       ELSE /\ matchesFilter(log.tag, parseFilterTerms(tagF))
            /\ matchesFilter(log.raw, parseFilterTerms(searchF))

getFilteredLogs(v, logs, level, tagF, searchF) ==
    LET Pass(log) == passesFilters(v, log, level, tagF, searchF)
    IN SelectSeq(logs, Pass)

raws(logs) == [i \in 1..Len(logs) |-> logs[i].raw]

\* renderLogs: what the log container shows and the count pair afterwards.
\* The sidebar view returns early whenever nothing passes the filters, the
\* panel only when the buffer is empty as well; an early return leaves the
\* container as it was, except for the sidebar's "No matching logs".
renderLogs(v, logs, level, tagF, searchF, oldShown) ==
    LET filtered == getFilteredLogs(v, logs, level, tagF, searchF)
        toRender == slice(filtered, 0 - RenderCap(v))
    IN IF Len(filtered) = 0 /\ Len(logs) = 0
       THEN [shown |-> oldShown, logCount |-> <<0, 0>>]
       ELSE IF Len(filtered) = 0 /\ v = "sidebar"
       THEN [shown |-> <<>>, logCount |-> <<0, Len(logs)>>]
       ELSE [shown |-> raws(toRender), logCount |-> <<Len(filtered), Len(logs)>>]

\* statusText.textContent set by setRunning
statusOf(v, running) ==
    IF running THEN <<"Running">>
    ELSE IF v = "sidebar" THEN <<>> ELSE <<"Stopped">>

\* positions of the log container relative to its bottom
ScrollGaps == {"bottom", "near", "far"}

\* the positions at most as far from the bottom as gap
notFarther(gap) ==
    IF gap = "bottom" THEN {"bottom"}
    ELSE IF gap = "near" THEN {"bottom", "near"}
    ELSE ScrollGaps

\* sidebar: scrollTop + clientHeight >= scrollHeight - 50
wasAtBottom(gap) == gap \in {"bottom", "near"}

\* renderLogs: where the container may be scrolled to afterwards.  An early
\* return that leaves the container untouched leaves the position; the
\* "No matching logs" element has the height of the container (plus the
\* panel's 8 px of padding), so that nothing or next to nothing scrolls;
\* setting scrollTop = scrollHeight goes to the bottom; the panel without
\* auto-scroll restores the distance from the bottom (less when the content
\* is shorter); when the lines are replaced and scrollTop is not set, the
\* offset from the top is kept and the distance from the bottom is whatever
\* the height of the new content makes it.
scrollAfterRender(v, logs, level, tagF, searchF, auto, running, gap) ==
    LET filtered == getFilteredLogs(v, logs, level, tagF, searchF)
    IN IF Len(filtered) = 0 /\ Len(logs) = 0 THEN {gap}
       ELSE IF v = "sidebar"
       THEN IF Len(filtered) = 0 THEN {"bottom"}
            ELSE IF auto /\ (wasAtBottom(gap) \/ running) THEN {"bottom"}
            ELSE ScrollGaps
       ELSE IF auto THEN {"bottom"}
            ELSE IF Len(filtered) = 0 THEN notFarther(gap) \cap {"bottom", "near"}
            ELSE notFarther(gap)

-----------------------------------------------------------------------------
(* One run of the filter engine: the panel's getFilteredLogs compiles the  *)
(* current filter string and tests a value with the compiled terms.        *)

\* at most this many comma-separated segments in a filter expression
MaxTerms == 2
\* at most this many characters in a tested value
MaxValueLen == 2

\* the segments a filter expression is made of: literal and /pattern/ terms,
\* negated or not, padded, upper case, empty, a lone `-', two patterns that
\* do not compile (one of them negated) and the two-character `//'
FilterSegments ==
    { <<"a">>, <<"-", "a">>, <<" ", "B", " ">>, <<"-", "b">>,
      <<"/", "a", ".", "/">>, <<"-", "/", "b", "/">>, <<"/", "(", "/">>,
      <<"-", "/", "(", "B", "/">>, <<"-">>, <<>>, <<"/", "/">> }

RECURSIVE join(_, _)
join(pieces, sep) ==
    IF pieces = <<>> THEN <<>>
    ELSE IF Len(pieces) = 1 THEN pieces[1]
    ELSE pieces[1] \o <<sep>> \o join(Tail(pieces), sep)

FilterExprs ==
    { join(segs, ",") : segs \in UNION { [1..n -> FilterSegments] : n \in 0..MaxTerms } }

\* the values tested: every short value over a, A, b and c, and two values
\* that hold the text of a pattern that does not compile
FilterValues ==
    UNION { [1..n -> {"a", "A", "b", "c"}] : n \in 0..MaxValueLen }
        \cup { <<"/", "(", "/">>, <<"c", "/", "(", "b", "/">> }

\* the state of a freshly resolved view: no capture process, an empty buffer,
\* setRunning(false) done, the level select on its default option
SessionAtRest(v) ==
    /\ view = v
    /\ adbProcess = 0
    /\ procs = <<>>
    /\ toHost = <<>>
    /\ toView = <<>>
    /\ allLogs = <<>>
    /\ isRunning = FALSE
    /\ statusText = statusOf(v, FALSE)
    /\ renderPending = FALSE
    /\ levelFilter = "I"
    /\ tagFilter = <<>>
    /\ searchFilter = <<>>
    /\ shown = <<>>
    /\ logCount = <<0, 0>>
    /\ autoScroll = TRUE
    /\ scrollGap = "bottom"
    /\ addPc = "idle"
    /\ chunk = <<>>
    /\ appended = <<>>
    /\ emitted = 0
    /\ settled = <<>>
    /\ lastOp = "init"

FilterInit ==
    /\ fExpr \in FilterExprs
    /\ fValue \in FilterValues
    /\ fTerms = <<>>
    /\ fResult = "none"
    /\ fpc = "parse"
    /\ ParserAtRest
    /\ EditorAtRest
    /\ SessionAtRest("panel")

\* const tagTerms = parseFilterTerms(tagFilter)
ParseFilter ==
    /\ fpc = "parse"
    /\ fTerms' = parseFilterTerms(fExpr)
    /\ fpc' = "match"
    /\ UNCHANGED <<fExpr, fValue, fResult, parseVars, editorVars, hostVars, webVars, histVars>>
    /\ UNCHANGED <<scrollVars, stepVars, settled>>

\* matchesFilter(log.tag || '', tagTerms)
MatchFilter ==
    /\ fpc = "match"
    /\ fResult' = matchesFilter(fValue, fTerms)
    /\ fpc' = "done"
    /\ UNCHANGED <<fExpr, fValue, fTerms, parseVars, editorVars, hostVars, webVars, histVars>>
    /\ UNCHANGED <<scrollVars, stepVars, settled>>

FilterNext == ParseFilter \/ MatchFilter

FilterSpec == FilterInit /\ [][FilterNext]_vars

-----------------------------------------------------------------------------
(* The live capture session.  Extension host: the message handler of the   *)
(* webview (start, stop) and the handlers attached to the capture process   *)
(* (stdout/stderr data, close, error).  Webview: the buttons, the window    *)
(* message listener and the animation frame callback.  Each handler runs to *)
(* completion; host and webview are separate event loops joined by two      *)
(* message queues.                                                          *)

\* at most this many capture processes are spawned
MaxProcs == 2
\* at most this many data events are raised by the capture processes
MaxChunks == 2
\* at most this many webview commands are in flight
MaxPending == 1
\* at most this many host messages are in flight
MaxQueue == 1

Stamp == <<"0", "1", "-", "1", "5", " ", "1", "0", ":", "2", "3", ":", "4", "5",
           ".", "1", "2", "3">>
\* a threadtime line, a line with a bare priority token, a line with neither
LineE == Stamp \o <<" ", "1", " ", "2", " ", "E", " ", "T", ":", " ", "m">>
LineW == <<"a", " ", "W", " ", "b">>
LineRaw == <<"o", "o", "p", "s">>
NL == <<"\n">>

\* n lines, alternately LineW and LineRaw, each ended by a line break
RECURSIVE bigChunk(_)
bigChunk(n) ==
    IF n = 0 THEN <<>>
    ELSE bigChunk(n - 1) \o (IF n % 2 = 1 THEN LineW ELSE LineRaw) \o NL

\* what a data event on stdout may carry: two lines with an empty line
\* between them, the last one not ended; blank lines only; more lines than
\* the buffer's capacity
StdoutTexts(v) ==
    { LineE \o NL \o NL \o LineRaw,
      <<" ", "\n">>,
      bigChunk(Capacity(v) + 1) }

Msg(command, data) == [command |-> command, data |-> data]

\* 'Failed to start ADB: ' + err.message and 'Failed to start logcat: ' + error
SpawnErrorText == <<"Failed to start ADB: spawn adb ENOENT">>
ThrowErrorText == <<"Failed to start logcat: Error">>

\* a ChildProcess: st is "live" (running), "failed" (could not be spawned:
\* 'error' is raised on the next tick), "killed" or "exited"; errored and
\* closed tell whether its 'error' and 'close' events have been raised
Proc(st) == [st |-> st, errored |-> FALSE, closed |-> FALSE]

\* a process that could not be spawned has its 'error' event queued with
\* process.nextTick and its 'close' event raised as its pipes are destroyed:
\* both run before the host's loop takes any other event
TickPending == \E p \in 1..Len(procs) : procs[p].st = "failed" /\ ~procs[p].closed

Init ==
    /\ \E v \in {"sidebar", "panel"} : SessionAtRest(v)
    /\ fExpr = <<>>
    /\ fValue = <<>>
    /\ fTerms = <<>>
    /\ fResult = "none"
    /\ fpc = "idle"
    /\ ParserAtRest
    /\ EditorAtRest

\* ---------------------------------------------------------------- host

\* _startAdbLogcat / startAdbLogcat without the `if (adbProcess) return'
HostStartNoGuard ==
    /\ ~TickPending
    /\ toHost # <<>> /\ Head(toHost) = "start"
    /\ toHost' = Tail(toHost)
    /\ Len(procs) < MaxProcs
    /\ Len(toView) < MaxQueue
    /\ procs' = Append(procs, Proc("live"))
    /\ adbProcess' = Len(procs) + 1
    /\ toView' = Append(toView, Msg("started", <<>>))
    /\ lastOp' = "start:spawned"
    /\ UNCHANGED <<view, pureVars, webVars, appended, emitted>>
    /\ UNCHANGED <<scrollVars, stepVars, settled>>

\* case 'start': _startAdbLogcat / startAdbLogcat.  cp.spawn returns a
\* running process, returns a process that could not be started (ENOENT:
\* 'error' follows on the next tick) or throws.
HostStart ==
    /\ ~TickPending
    /\ toHost # <<>> /\ Head(toHost) = "start"
    /\ toHost' = Tail(toHost)
    /\ IF adbProcess # 0
       THEN /\ lastOp' = "start:ignored"
            /\ UNCHANGED <<adbProcess, procs, toView>>
       ELSE /\ Len(procs) < MaxProcs
            /\ Len(toView) < MaxQueue
            /\ \/ /\ procs' = Append(procs, Proc("live"))
                  /\ adbProcess' = Len(procs) + 1
                  /\ toView' = Append(toView, Msg("started", <<>>))
                  /\ lastOp' = "start:spawned"
               \/ /\ procs' = Append(procs, Proc("failed"))
                  /\ adbProcess' = Len(procs) + 1
                  /\ toView' = Append(toView, Msg("started", <<>>))
                  /\ lastOp' = "other"
               \/ /\ toView' = Append(toView, Msg("error", ThrowErrorText))
                  /\ lastOp' = "start:threw"
                  /\ UNCHANGED <<adbProcess, procs>>
    /\ UNCHANGED <<view, pureVars, webVars, appended, emitted>>
    /\ UNCHANGED <<scrollVars, stepVars, settled>>

\* ChildProcess.kill(): signals a running process; no effect on one that
\* has ended
kill(p) == IF p.st = "live" THEN [p EXCEPT !.st = "killed"] ELSE p

\* case 'stop': _stopAdbLogcat / stopAdbLogcat
HostStop ==
    /\ ~TickPending
    /\ toHost # <<>> /\ Head(toHost) = "stop"
    /\ toHost' = Tail(toHost)
    /\ Len(toView) < MaxQueue
    /\ IF adbProcess # 0
       THEN /\ procs' = [procs EXCEPT ![adbProcess] = kill(@)]
            /\ adbProcess' = 0
            /\ lastOp' = "stop:killed"
       ELSE /\ lastOp' = "stop:idle"
            /\ UNCHANGED <<adbProcess, procs>>
    /\ toView' = Append(toView, Msg("stopped", <<>>))
    /\ UNCHANGED <<view, pureVars, webVars, appended, emitted>>
    /\ UNCHANGED <<scrollVars, stepVars, settled>>

\* a process whose output pipes are still open: data written before it
\* ended is delivered until 'close'
CanEmit(p) ==
    /\ p \in 1..Len(procs)
    /\ procs[p].st \in {"live", "killed", "exited"}
    /\ ~procs[p].closed

\* adbProcess.stdout.on('data', ...)
ProcStdout ==
    /\ ~TickPending
    /\ emitted < MaxChunks
    /\ Len(toView) < MaxQueue
    /\ \E p \in 1..Len(procs), text \in StdoutTexts(view) :
          /\ CanEmit(p)
          /\ toView' = Append(toView, Msg("log", text))
    /\ emitted' = emitted + 1
    /\ lastOp' = "other"
    /\ UNCHANGED <<view, adbProcess, procs, toHost, pureVars, webVars, appended>>
    /\ UNCHANGED <<scrollVars, stepVars, settled>>

\* adbProcess.stderr.on('data', ...)
ProcStderr ==
    /\ ~TickPending
    /\ emitted < MaxChunks
    /\ Len(toView) < MaxQueue
    /\ \E p \in 1..Len(procs), text \in { <<"e", "r", "r", "\n">> } :
          /\ CanEmit(p)
          /\ toView' = Append(toView, Msg("log", <<"[", "E", "R", "R", "O", "R", "]", " ">>
                                                     \o text))
    /\ emitted' = emitted + 1
    /\ lastOp' = "other"
    /\ UNCHANGED <<view, adbProcess, procs, toHost, pureVars, webVars, appended>>
    /\ UNCHANGED <<scrollVars, stepVars, settled>>

\* the capture process ends on its own (adb exits, the device disconnects)
ProcExit ==
    /\ \E p \in 1..Len(procs) :
          /\ procs[p].st = "live"
          /\ procs' = [procs EXCEPT ![p].st = "exited"]
    /\ lastOp' = "other"
    /\ UNCHANGED <<view, adbProcess, toHost, toView, pureVars, webVars, appended, emitted>>
    /\ UNCHANGED <<scrollVars, stepVars, settled>>

\* a close handler that reports the end of the process as an error
ProcCloseAsError ==
    /\ Len(toView) < MaxQueue
    /\ \E p \in 1..Len(procs) :
          /\ ~procs[p].closed
          /\ \/ procs[p].st \in {"killed", "exited"} /\ ~TickPending
             \/ procs[p].st = "failed" /\ procs[p].errored
          /\ procs' = [procs EXCEPT ![p].closed = TRUE]
    /\ adbProcess' = 0
    /\ toView' = Append(toView, Msg("error", <<"exited">>))
    /\ lastOp' = "other"
    /\ UNCHANGED <<view, toHost, pureVars, webVars, appended, emitted>>
    /\ UNCHANGED <<scrollVars, stepVars, settled>>

\* adbProcess.on('close', ...): raised once the process has ended ('exit',
\* or 'error' when it could not be spawned) and its pipes are closed
ProcClose ==
    /\ Len(toView) < MaxQueue
    /\ \E p \in 1..Len(procs) :
          /\ ~procs[p].closed
          /\ \/ procs[p].st \in {"killed", "exited"} /\ ~TickPending
             \/ procs[p].st = "failed" /\ procs[p].errored
          /\ procs' = [procs EXCEPT ![p].closed = TRUE]
    /\ adbProcess' = 0
    /\ toView' = Append(toView, Msg("stopped", <<>>))
    /\ lastOp' = "other"
    /\ UNCHANGED <<view, toHost, pureVars, webVars, appended, emitted>>
    /\ UNCHANGED <<scrollVars, stepVars, settled>>

\* an error handler that leaves the handle on the process that failed
ProcErrorKeepsHandle ==
    /\ Len(toView) < MaxQueue
    /\ \E p \in 1..Len(procs) :
          /\ procs[p].st = "failed" /\ ~procs[p].errored
          /\ procs' = [procs EXCEPT ![p].errored = TRUE]
    /\ toView' = Append(toView, Msg("error", SpawnErrorText))
    /\ lastOp' = "other"
    /\ UNCHANGED <<view, adbProcess, toHost, pureVars, webVars, appended, emitted>>
    /\ UNCHANGED <<scrollVars, stepVars, settled>>

\* adbProcess.on('error', ...)
ProcError ==
    /\ Len(toView) < MaxQueue
    /\ \E p \in 1..Len(procs) :
          /\ procs[p].st = "failed" /\ ~procs[p].errored
          /\ procs' = [procs EXCEPT ![p].errored = TRUE]
    /\ adbProcess' = 0
    /\ toView' = Append(toView, Msg("error", SpawnErrorText))
    /\ lastOp' = "other"
    /\ UNCHANGED <<view, toHost, pureVars, webVars, appended, emitted>>
    /\ UNCHANGED <<scrollVars, stepVars, settled>>

\* ------------------------------------------------------------- webview

\* the start button (disabled while isRunning): startCapture()
ClickStart ==
    /\ addPc = "idle"
    /\ ~isRunning
    /\ Len(toHost) < MaxPending
    /\ toHost' = Append(toHost, "start")
    /\ lastOp' = "other"
    /\ UNCHANGED <<view, adbProcess, procs, toView, pureVars, webVars, appended, emitted>>
    /\ UNCHANGED <<scrollVars, stepVars, settled>>

\* the stop button (disabled unless isRunning): stopCapture()
ClickStop ==
    /\ addPc = "idle"
    /\ isRunning
    /\ Len(toHost) < MaxPending
    /\ toHost' = Append(toHost, "stop")
    /\ lastOp' = "other"
    /\ UNCHANGED <<view, adbProcess, procs, toView, pureVars, webVars, appended, emitted>>
    /\ UNCHANGED <<scrollVars, stepVars, settled>>

\* clearLogs that also resets the running flag
ClickClearStops ==
    /\ allLogs' = <<>>
    /\ isRunning' = FALSE
    /\ statusText' = statusOf(view, FALSE)
    /\ shown' = <<>>
    /\ logCount' = <<0, 0>>
    /\ appended' = <<>>
    /\ lastOp' = IF isRunning /\ allLogs # <<>> THEN "clear:running" ELSE "clear:other"
    /\ UNCHANGED <<hostVars, pureVars, renderPending,
                   levelFilter, tagFilter, searchFilter, emitted>>
    /\ settled' = <<>>
    /\ UNCHANGED <<scrollVars, stepVars>>

\* the clear button: clearLogs().  The sidebar empties the container and the
\* count itself; the panel calls renderLogs(), which returns early on the
\* empty buffer.
ClickClear ==
    /\ addPc = "idle"
    /\ allLogs' = <<>>
    /\ IF view = "sidebar"
       THEN /\ shown' = <<>>
            /\ logCount' = <<0, 0>>
            /\ scrollGap' = "bottom"
       ELSE \E r \in {renderLogs(view, <<>>, levelFilter, tagFilter, searchFilter, shown)} :
               /\ shown' = r.shown
               /\ logCount' = r.logCount
               /\ scrollGap' \in scrollAfterRender(view, <<>>, levelFilter, tagFilter,
                                                  searchFilter, autoScroll, isRunning,
                                                  scrollGap)
    /\ settled' = <<>>
    /\ UNCHANGED <<autoScroll, stepVars>>
    /\ appended' = <<>>
    /\ lastOp' = IF isRunning /\ allLogs # <<>> THEN "clear:running" ELSE "clear:other"
    /\ UNCHANGED <<hostVars, pureVars, isRunning, statusText, renderPending,
                   levelFilter, tagFilter, searchFilter, emitted>>

\* a renderLogs that keeps only the rendered records in the buffer
RenderFrameTruncating ==
    /\ addPc = "idle"
    /\ view = "sidebar"
    /\ renderPending
    /\ renderPending' = FALSE
    /\ \E filtered \in {getFilteredLogs(view, allLogs, levelFilter, tagFilter, searchFilter)} :
          /\ allLogs' = slice(filtered, 0 - RenderCap(view))
          /\ shown' = raws(allLogs')
          /\ logCount' = <<Len(filtered), Len(allLogs)>>
    /\ lastOp' = "render"
    /\ UNCHANGED <<hostVars, pureVars, isRunning, statusText, levelFilter, tagFilter,
                   searchFilter, scrollVars, stepVars, appended, emitted, settled>>

\* a frame callback that may run while addLogs is between two statements
RenderFrameMidAppend ==
    /\ view = "sidebar"
    /\ renderPending
    /\ renderPending' = FALSE
    /\ \E r \in {renderLogs(view, allLogs, levelFilter, tagFilter, searchFilter, shown)} :
          /\ shown' = r.shown
          /\ logCount' = r.logCount
    /\ scrollGap' \in scrollAfterRender(view, allLogs, levelFilter, tagFilter, searchFilter,
                                       autoScroll, isRunning, scrollGap)
    /\ lastOp' = "render"
    /\ UNCHANGED <<autoScroll, stepVars, settled>>
    /\ UNCHANGED <<hostVars, pureVars, allLogs, isRunning, statusText,
                   levelFilter, tagFilter, searchFilter, appended, emitted>>

\* sidebar: the requestAnimationFrame callback, renderLogs()
RenderFrame ==
    /\ addPc = "idle"
    /\ view = "sidebar"
    /\ renderPending
    /\ renderPending' = FALSE
    /\ \E r \in {renderLogs(view, allLogs, levelFilter, tagFilter, searchFilter, shown)} :
          /\ shown' = r.shown
          /\ logCount' = r.logCount
    /\ scrollGap' \in scrollAfterRender(view, allLogs, levelFilter, tagFilter, searchFilter,
                                       autoScroll, isRunning, scrollGap)
    /\ lastOp' = "render"
    /\ UNCHANGED <<autoScroll, stepVars, settled>>
    /\ UNCHANGED <<hostVars, pureVars, allLogs, isRunning, statusText,
                   levelFilter, tagFilter, searchFilter, appended, emitted>>

\* window message listener, case 'log': addLogs(message.data)
RecvLog ==
    /\ addPc = "idle"
    /\ toView # <<>> /\ Head(toView).command = "log"
    /\ toView' = Tail(toView)
    /\ \E text \in {Head(toView).data} :
       \E new \in {newLogs(view, text)}, logs \in {addLogs(view, allLogs, text)} :
          /\ allLogs' = logs
          /\ settled' = logs
          /\ appended' = appended \o new
          /\ IF Len(new) = 0
             THEN /\ lastOp' = "other"
                  /\ UNCHANGED <<renderPending, shown, logCount, scrollGap>>
             ELSE /\ lastOp' = IF Len(allLogs) + Len(new) > Capacity(view)
                               THEN "log:trimmed" ELSE "log:kept"
                  /\ IF view = "sidebar"
                     THEN /\ renderPending' = TRUE
                          /\ UNCHANGED <<shown, logCount, scrollGap>>
                     ELSE \E r \in {renderLogs(view, logs, levelFilter, tagFilter,
                                                  searchFilter, shown)} :
                             /\ shown' = r.shown
                             /\ logCount' = r.logCount
                             /\ scrollGap' \in scrollAfterRender(view, logs, levelFilter,
                                     tagFilter, searchFilter, autoScroll, isRunning,
                                     scrollGap)
                             /\ UNCHANGED renderPending
    /\ UNCHANGED <<autoScroll, stepVars>>
    /\ UNCHANGED <<view, adbProcess, procs, toHost, pureVars, isRunning, statusText,
                   levelFilter, tagFilter, searchFilter, emitted>>

\* case 'started': setRunning(true)
RecvStarted ==
    /\ addPc = "idle"
    /\ toView # <<>> /\ Head(toView).command = "started"
    /\ toView' = Tail(toView)
    /\ isRunning' = TRUE
    /\ statusText' = statusOf(view, TRUE)
    /\ lastOp' = "other"
    /\ UNCHANGED <<view, adbProcess, procs, toHost, pureVars, allLogs, renderPending,
                   levelFilter, tagFilter, searchFilter, shown, logCount,
                   appended, emitted>>
    /\ UNCHANGED <<scrollVars, stepVars, settled>>

\* case 'stopped': setRunning(false)
RecvStopped ==
    /\ addPc = "idle"
    /\ toView # <<>> /\ Head(toView).command = "stopped"
    /\ toView' = Tail(toView)
    /\ isRunning' = FALSE
    /\ statusText' = statusOf(view, FALSE)
    /\ lastOp' = "other"
    /\ UNCHANGED <<view, adbProcess, procs, toHost, pureVars, allLogs, renderPending,
                   levelFilter, tagFilter, searchFilter, shown, logCount,
                   appended, emitted>>
    /\ UNCHANGED <<scrollVars, stepVars, settled>>

\* case 'error': setRunning(false), then the message is put in the status
\* text (sidebar) or shown with alert() (panel)
RecvError ==
    /\ addPc = "idle"
    /\ toView # <<>> /\ Head(toView).command = "error"
    /\ toView' = Tail(toView)
    /\ isRunning' = FALSE
    /\ statusText' = IF view = "sidebar" THEN Head(toView).data
                     ELSE statusOf(view, FALSE)
    /\ lastOp' = "other"
    /\ UNCHANGED <<view, adbProcess, procs, toHost, pureVars, allLogs, renderPending,
                   levelFilter, tagFilter, searchFilter, shown, logCount,
                   appended, emitted>>
    /\ UNCHANGED <<scrollVars, stepVars, settled>>

Next ==
    \/ HostStart \/ HostStop
    \/ ProcStdout \/ ProcStderr \/ ProcExit \/ ProcClose \/ ProcError
    \/ ClickStart \/ ClickStop \/ ClickClear \/ RenderFrame
    \/ RecvLog \/ RecvStarted \/ RecvStopped \/ RecvError

Spec == Init /\ [][Next]_vars

-----------------------------------------------------------------------------
(* Properties of the filter engine *)

NegatedHit == \E i \in 1..Len(fTerms) : fTerms[i].negated /\ termMatches(fTerms[i], fValue)
PositiveHit == \E i \in 1..Len(fTerms) : ~fTerms[i].negated /\ termMatches(fTerms[i], fValue)
HasPositive == \E i \in 1..Len(fTerms) : ~fTerms[i].negated

\* C1: a value that matches at least one negated term is rejected by
\* matchesFilter, whatever positive terms the list holds and whether they
\* match; the terms of "a,-b" reject "ab", accept "a" and reject "c".
C1_ExclusionDominates ==
    fpc = "done" =>
        /\ NegatedHit => fResult = FALSE
        /\ fExpr = <<"a", ",", "-", "b">> =>
              /\ fValue = <<"a", "b">> => fResult = FALSE
              /\ fValue = <<"a">> => fResult = TRUE
              /\ fValue = <<"c">> => fResult = FALSE

\* C1 witness: a negated term and a positive term both match and the value
\* was rejected
C1_Witness ==
    /\ fpc = "done"
    /\ NegatedHit
    /\ PositiveHit
    /\ fResult = FALSE

\* C2: a value that matches no negated term passes exactly when the list has
\* no positive term or the value matches at least one positive term; the
\* empty list passes every value and so does a list of negated terms none of
\* which matches.
C2_PositiveOr ==
    (fpc = "done" /\ ~NegatedHit) =>
        /\ fResult = TRUE <=> (~HasPositive \/ PositiveHit)
        /\ fTerms = <<>> => fResult = TRUE
        /\ ~HasPositive => fResult = TRUE

\* C2 witness: two positive terms of which only one matches, no negated term
\* matches, and the value passed
C2_Witness ==
    /\ fpc = "done"
    /\ ~NegatedHit
    /\ \E i, j \in 1..Len(fTerms) :
          /\ ~fTerms[i].negated /\ termMatches(fTerms[i], fValue)
          /\ ~fTerms[j].negated /\ ~termMatches(fTerms[j], fValue)
    /\ fResult = TRUE

\* ------------------------------------------------- buffer properties

\* a step of the message listener that hands a log chunk to addLogs
LogStep == toView # <<>> /\ Head(toView).command = "log" /\ toView' = Tail(toView)

\* the last n elements of s
lastRecords(s, n) == SubSeq(s, Len(s) - n + 1, Len(s))

\* the buffer followed by the records of the chunk being appended
preTrim == allLogs \o newLogs(view, Head(toView).data)

\* C3: when an append makes the buffer longer than its capacity, the buffer
\* becomes exactly the last trimTo records of the untrimmed sequence, in
\* the same order (the oldest records are the ones dropped); while the
\* length is at most the capacity the untrimmed sequence is kept whole.
C3_TrimKeepsNewest ==
    [][LogStep =>
         allLogs' = IF Len(preTrim) > Capacity(view)
                    THEN lastRecords(preTrim, TrimTo(view))
                    ELSE preTrim]_vars

\* an append has trimmed the buffer and dropped records of an earlier chunk
C3_Witness ==
    /\ lastOp = "log:trimmed"
    /\ Len(appended) > Capacity(view) + 1
    /\ Len(allLogs) = TrimTo(view)

\* C4: in every reachable state, whatever appends, clears, starts and
\* stops led to it, the buffer holds at most capacity records.
C4_BufferBounded == Len(allLogs) <= Capacity(view)

\* a single chunk with more lines than the capacity has been appended to
\* the empty buffer
C4_Witness ==
    /\ lastOp = "log:trimmed"
    /\ Len(appended) = Capacity(view) + 1
    /\ Len(allLogs) <= Capacity(view)

\* C5: in every reachable state the buffer is a contiguous suffix of the
\* records made from the non-blank lines appended since the last clear, in
\* arrival order.
C5_SuffixOfAppended ==
    /\ Len(allLogs) <= Len(appended)
    /\ allLogs = lastRecords(appended, Len(allLogs))

\* a chunk has been appended, without trimming, to a buffer that an
\* earlier append had trimmed
C5_Witness ==
    /\ lastOp = "log:kept"
    /\ Len(appended) > Len(allLogs)
    /\ Len(allLogs) > TrimTo(view)

\* ------------------------------------------------ session properties

\* the step in which the host handles a start command
StartStep == toHost # <<>> /\ Head(toHost) = "start" /\ toHost' = Tail(toHost)

\* some capture process is running
SomeLive == \E p \in 1..Len(procs) : procs[p].st = "live"

\* C6: a log chunk that reaches the buffer while the session is not
\* running (no handle in the host, running flag off in the view) leaves
\* the buffer unchanged.
C6_AppendOnlyWhenRunning ==
    [][(LogStep /\ ~isRunning /\ adbProcess = 0) => allLogs' = allLogs]_vars

C8_SingleLiveProcess ==
    \A p \in 1..Len(procs) : procs[p].st = "live" => adbProcess = p

\* C9: a stop terminates the capture process, leaves the session without a
\* handle and reports stopped, and leaves the buffer as it was.
C9_StopTerminates ==
    [][(toHost # <<>> /\ Head(toHost) = "stop" /\ toHost' = Tail(toHost)) =>
         /\ ~SomeLive'
         /\ adbProcess' = 0
         /\ toView' = Append(toView, Msg("stopped", <<>>))
         /\ allLogs' = allLogs]_vars

\* C10: clear empties the buffer and changes neither the running flag, the
\* status, the handle nor any process; the next chunk is appended to the
\* empty buffer.
C10_ClearKeepsRunState ==
    [][/\ lastOp' \in {"clear:running", "clear:other"} =>
            /\ allLogs' = <<>>
            /\ UNCHANGED <<isRunning, statusText, adbProcess, procs, toHost, toView>>
       /\ (LogStep /\ lastOp \in {"clear:running", "clear:other"}) =>
            LET new == newLogs(view, Head(toView).data)
            IN allLogs' = IF Len(new) > Capacity(view)
                          THEN lastRecords(new, TrimTo(view)) ELSE new]_vars

\* a non-empty buffer has been cleared while a capture is running
C10_Witness ==
    /\ lastOp = "clear:running"
    /\ allLogs = <<>>
    /\ isRunning
    /\ adbProcess # 0
    /\ procs[adbProcess].st = "live"

-----------------------------------------------------------------------------
(* The webview alone: the host is whatever posts messages to it.  addLogs   *)
(* is taken one statement group at a time; a handler runs to completion    *)
(* before the webview takes another event.                                 *)


\* the messages the host posts to the webview
HostPost ==
    /\ Len(toView) < MaxQueue
    /\ \/ /\ emitted < MaxChunks
          /\ \E text \in StdoutTexts(view) : toView' = Append(toView, Msg("log", text))
          /\ emitted' = emitted + 1
       \/ /\ toView' = Append(toView, Msg(IF isRunning THEN "stopped" ELSE "started", <<>>))
          /\ UNCHANGED emitted
    /\ lastOp' = "other"
    /\ UNCHANGED <<view, adbProcess, procs, toHost, pureVars, webVars, scrollVars,
                   stepVars, appended, settled>>

\* case 'log': addLogs, up to allLogs.push(...newLogs)
AddLogsPush ==
    /\ addPc = "idle"
    /\ toView # <<>> /\ Head(toView).command = "log"
    /\ toView' = Tail(toView)
    /\ \E text \in {Head(toView).data} : \E new \in {newLogs(view, text)} :
          IF Len(new) = 0
          THEN UNCHANGED <<allLogs, addPc, chunk, appended>>
          ELSE /\ allLogs' = allLogs \o new
               /\ addPc' = "pushed"
               /\ chunk' = text
               /\ appended' = appended \o new
    /\ lastOp' = "other"
    /\ UNCHANGED <<view, adbProcess, procs, toHost, pureVars, isRunning, statusText,
                   renderPending, levelFilter, tagFilter, searchFilter, shown, logCount,
                   scrollVars, emitted, settled>>

\* addLogs: if (allLogs.length > capacity) allLogs = allLogs.slice(-trimTo)
AddLogsTrim ==
    /\ addPc = "pushed"
    /\ allLogs' = IF Len(allLogs) > Capacity(view)
                  THEN slice(allLogs, 0 - TrimTo(view)) ELSE allLogs
    /\ addPc' = "trimmed"
    /\ lastOp' = "other"
    /\ UNCHANGED <<hostVars, pureVars, isRunning, statusText, renderPending,
                   levelFilter, tagFilter, searchFilter, shown, logCount,
                   scrollVars, chunk, appended, emitted, settled>>

\* an addLogs that returns without scheduleRender() in the sidebar
AddLogsRenderUnscheduled ==
    /\ addPc = "trimmed"
    /\ IF view = "sidebar"
       THEN /\ lastOp' = "other"
            /\ UNCHANGED <<renderPending, shown, logCount, scrollGap>>
       ELSE \E r \in {renderLogs(view, allLogs, levelFilter, tagFilter, searchFilter, shown)} :
               /\ shown' = r.shown
               /\ logCount' = r.logCount
               /\ scrollGap' \in scrollAfterRender(view, allLogs, levelFilter, tagFilter,
                                     searchFilter, autoScroll, isRunning, scrollGap)
               /\ lastOp' = "render"
               /\ UNCHANGED renderPending
    /\ addPc' = "idle"
    /\ chunk' = <<>>
    /\ settled' = allLogs
    /\ UNCHANGED <<hostVars, pureVars, allLogs, isRunning, statusText,
                   levelFilter, tagFilter, searchFilter, autoScroll, appended, emitted>>

\* addLogs: scheduleRender() (sidebar) or renderLogs() (panel), and return.
\* scheduleRender requests a frame unless one is already requested.
AddLogsRender ==
    /\ addPc = "trimmed"
    /\ IF view = "sidebar"
       THEN /\ renderPending' = TRUE
            /\ lastOp' = IF renderPending THEN "append:coalesced" ELSE "append:scheduled"
            /\ UNCHANGED <<shown, logCount, scrollGap>>
       ELSE \E r \in {renderLogs(view, allLogs, levelFilter, tagFilter, searchFilter, shown)} :
               /\ shown' = r.shown
               /\ logCount' = r.logCount
               /\ scrollGap' \in scrollAfterRender(view, allLogs, levelFilter, tagFilter,
                                     searchFilter, autoScroll, isRunning, scrollGap)
               /\ lastOp' = "render"
               /\ UNCHANGED renderPending
    /\ addPc' = "idle"
    /\ chunk' = <<>>
    /\ settled' = allLogs
    /\ UNCHANGED <<hostVars, pureVars, allLogs, isRunning, statusText,
                   levelFilter, tagFilter, searchFilter, autoScroll, appended, emitted>>

\* applyFilters() after the controls have taken the given values:
\* scheduleRender() (sidebar) or renderLogs() (panel)
applyFilters(level, tagF, searchF) ==
    /\ addPc = "idle"
    /\ levelFilter' = level
    /\ tagFilter' = tagF
    /\ searchFilter' = searchF
    /\ IF view = "sidebar"
       THEN /\ renderPending' = TRUE
            /\ lastOp' = "other"
            /\ UNCHANGED <<shown, logCount, scrollGap>>
       ELSE \E r \in {renderLogs(view, allLogs, level, tagF, searchF, shown)} :
               /\ shown' = r.shown
               /\ logCount' = r.logCount
               /\ scrollGap' \in scrollAfterRender(view, allLogs, level, tagF, searchF,
                                     autoScroll, isRunning, scrollGap)
               /\ lastOp' = "render"
               /\ UNCHANGED renderPending
    /\ UNCHANGED <<hostVars, pureVars, allLogs, isRunning, statusText, autoScroll,
                   stepVars, appended, emitted, settled>>

\* the level select (onchange), the tag and search inputs (oninput), with
\* the values the user gives them
ChangeLevel == \E level \in ({"V", "I"} \cap LevelOptions(view)) \ {levelFilter} :
                  applyFilters(level, tagFilter, searchFilter)
ChangeTag == \E tagF \in { <<>>, <<"T">> } \ {tagFilter} :
                  applyFilters(levelFilter, tagF, searchFilter)
ChangeSearch == \E searchF \in { <<>>, <<"o", "o", "p", "s">> } \ {searchFilter} :
                  applyFilters(levelFilter, tagFilter, searchF)

\* the auto-scroll checkbox (it has no handler)
ToggleAutoScroll ==
    /\ addPc = "idle"
    /\ autoScroll' = ~autoScroll
    /\ lastOp' = "other"
    /\ UNCHANGED <<hostVars, pureVars, webVars, scrollGap, stepVars,
                   appended, emitted, settled>>

\* the user scrolls the log container, which holds lines, away from the
\* bottom or back to it
UserScroll ==
    /\ addPc = "idle"
    /\ shown # <<>>
    /\ scrollGap' = IF scrollGap = "far" THEN "bottom" ELSE "far"
    /\ lastOp' = "other"
    /\ UNCHANGED <<hostVars, pureVars, webVars, autoScroll, stepVars,
                   appended, emitted, settled>>

ViewNext ==
    \/ HostPost
    \/ AddLogsPush \/ AddLogsTrim \/ AddLogsRender
    \/ RecvStarted \/ RecvStopped
    \/ ChangeLevel \/ ChangeTag \/ ChangeSearch
    \/ ToggleAutoScroll \/ UserScroll
    \/ ClickClear \/ RenderFrame

ViewSpec == Init /\ [][ViewNext]_vars

\* the frame callback is run once the handler in progress has returned, and
\* a handler that has started runs to its end
FairViewSpec ==
    /\ ViewSpec
    /\ WF_vars(RenderFrame)
    /\ WF_vars(AddLogsTrim)
    /\ WF_vars(AddLogsRender)

-----------------------------------------------------------------------------
(* Properties of rendering *)

\* the last step ran renderLogs to its end: one of the above, or the
\* panel's clearLogs
justRendered ==
    \/ lastOp = "render"
    \/ view = "panel" /\ lastOp \in {"clear:running", "clear:other"}

\* the records that pass the current filters, and what a render of them is
\* to show: the raw lines of the last min(N, f) of them, and the pair (f, total)
filteredNow == getFilteredLogs(view, allLogs, levelFilter, tagFilter, searchFilter)
expectedShown ==
    LET f == Len(filteredNow)
        n == IF f < RenderCap(view) THEN f ELSE RenderCap(view)
    IN raws(lastRecords(filteredNow, n))
expectedCount == <<Len(filteredNow), Len(allLogs)>>

\* C11: a render (a step that only runs renderLogs: the sidebar's frame
\* callback, the panel's render at the end of addLogs or after a filter
\* change) leaves the buffer (length, order, records) and the run state
\* exactly as they were, for every filter state and buffer content.
C11_RenderPureRead ==
    [][lastOp' = "render" => UNCHANGED <<allLogs, isRunning, statusText, adbProcess>>]_vars

\* a render has just shown part of a buffer that holds more records than
\* pass the filters
C11_Witness ==
    /\ lastOp = "render"
    /\ logCount[2] = Len(allLogs)
    /\ logCount[1] > 0
    /\ logCount[1] < logCount[2]
    /\ shown # <<>>

\* C12: when a render has run, the container shows exactly the last
\* min(N, f) records that pass the filters, in buffer order, and the count
\* element reports (f, total) with total the length of the buffer and
\* f <= total.
C12_RenderShowsNewest ==
    justRendered =>
        /\ shown = expectedShown
        /\ logCount = expectedCount
        /\ logCount[1] <= logCount[2]

\* C13: with auto-scroll enabled, when a render caused by an append or a
\* filter change has shown the records that pass the filters (there is at
\* least one), the container is scrolled to its bottom, whatever the run
\* state and the position before.
C13_AutoScrollToBottom ==
    (lastOp = "render" /\ autoScroll /\ logCount[1] > 0) => scrollGap = "bottom"

\* C14: no record whose priority is absent passes the filters, whichever
\* level is selected.
C14_AbsentPriorityFiltered ==
    \A i \in 1..Len(filteredNow) : filteredNow[i].priority \notin {Null, Undefined}

-----------------------------------------------------------------------------
(* Properties of the end of a capture *)

\* the 'close' event of process p is raised in this step
CloseStepOf(p) == p <= Len(procs) /\ ~procs[p].closed /\ procs'[p].closed

\* the webview takes a message with this command in this step
DeliverStep(command) ==
    toView # <<>> /\ Head(toView).command = command /\ toView' = Tail(toView)

\* process p has ended on its own and its 'close' event has not been raised
exitedOpen(p) == p <= Len(procs) /\ procs[p].st = "exited" /\ ~procs[p].closed

\* C15: when the capture process has ended on its own, the handler of its
\* 'close' event leaves the session without a handle and posts 'stopped'
\* (not 'error'), and the view, on that message, shows stopped with start
\* enabled; neither step changes the buffer.
C15_ExitMovesToIdle ==
    /\ [][\A p \in 1..MaxProcs : (exitedOpen(p) /\ CloseStepOf(p)) =>
            /\ adbProcess' = 0
            /\ toView' = Append(toView, Msg("stopped", <<>>))
            /\ UNCHANGED <<allLogs, isRunning>>]_vars
    /\ [][DeliverStep("stopped") =>
            /\ ~isRunning'
            /\ statusText' = statusOf(view, FALSE)
            /\ UNCHANGED <<allLogs, adbProcess, procs>>]_vars

\* a capture that was shown running and had filled the buffer has ended on
\* its own, and the view has been told
C15_Witness ==
    /\ Len(procs) = 1
    /\ procs[1].st = "exited" /\ procs[1].closed
    /\ adbProcess = 0
    /\ toView = <<>>
    /\ ~isRunning
    /\ allLogs # <<>>
    /\ lastOp = "other"

\* the 'error' event of process p is raised in this step
ErrorStepOf(p) == p <= Len(procs) /\ ~procs[p].errored /\ procs'[p].errored

\* C16: when the capture process could not be spawned, the handler of its
\* 'error' event leaves the session without a handle and posts 'error' with
\* the failure message; the view, on that message, leaves Running and
\* presents the message; a process is spawned only when the host handles a
\* start command.
C16_SpawnErrorReported ==
    /\ [][\A p \in 1..MaxProcs : ErrorStepOf(p) =>
            /\ adbProcess' = 0
            /\ toView' = Append(toView, Msg("error", SpawnErrorText))
            /\ Len(procs') = Len(procs)
            /\ UNCHANGED <<allLogs, toHost>>]_vars
    /\ [][DeliverStep("error") =>
            /\ ~isRunning'
            /\ Head(toView).data \in {SpawnErrorText, ThrowErrorText}
            /\ view = "sidebar" => statusText' = Head(toView).data
            /\ view = "panel" => statusText' = statusOf(view, FALSE)
            /\ UNCHANGED <<allLogs, adbProcess, procs, toHost>>]_vars
    /\ [][Len(procs') > Len(procs) => StartStep]_vars

\* the spawn has failed and the sidebar, no longer running, shows the
\* failure message with no handle left in the host
C16_Witness ==
    /\ view = "sidebar"
    /\ Len(procs) = 1
    /\ procs[1].st = "failed" /\ procs[1].errored
    /\ adbProcess = 0
    /\ ~isRunning
    /\ statusText = SpawnErrorText
    /\ toHost = <<>>

-----------------------------------------------------------------------------
(* Properties of appends and renders taken together *)

\* C17: when a render has run, no append is in progress and the buffer is
\* the one the last completed append or clear left, no longer than the
\* capacity; an append that has pushed and trimmed has made of the buffer it
\* found exactly what addLogs makes of it in one piece.
C17_RenderSeesWholeAppends ==
    /\ lastOp = "render" =>
          /\ addPc = "idle"
          /\ allLogs = settled
          /\ Len(allLogs) <= Capacity(view)
    /\ addPc = "pushed" => allLogs = settled \o newLogs(view, chunk)
    /\ addPc = "trimmed" => allLogs = addLogs(view, settled, chunk)

\* a render has run after an append that trimmed the buffer
C17_Witness ==
    /\ lastOp = "render"
    /\ Len(appended) > Capacity(view)
    /\ Len(allLogs) = TrimTo(view)
    /\ logCount[2] = TrimTo(view)

-----------------------------------------------------------------------------
(* One call of the line parser *)

\* line numbers run from 1 to this
MaxLineNumber == 2

\* the lines given to parseLogLine: a head (nothing, a time stamp, a time
\* stamp behind a bracket, a time stamp without milliseconds), the numbers
\* after it, a priority letter (one of the class, one outside it, none)
\* with its separator, a tag (plain, with a pid in parentheses, holding a
\* colon, with a blank) and an ending (a colon with or without a message,
\* a closing bracket, a carriage return at the end, a message that holds a
\* number in parentheses and a colon)
ParserLines ==
    LET Heads == { <<>>, Stamp, <<"[", " ">> \o Stamp, <<"[">> \o Stamp,
                   SubSeq(Stamp, 1, 14) }
        Mids == { <<>>, <<" ">>, <<" ", "1", " ", "0", "2", " ">>,
                  <<" ", "0", "7", ":", " ", "2", " ">>, <<" ", "1", " ">> }
        Prios == { <<>>, <<"E">>, <<"S">>, <<"X">> }
        Seps == { <<" ">>, <<"/">>, <<" ", " ">> }
        Tags == { <<>>, <<"T">>, <<"T", "(", "7", ")">>, <<"T", "(", " ", "0", "7", ")">>,
                  <<"a", ":", "b", "(", "7", ")">>, <<":", "(", "7", ")">>, <<"T", " ">> }
        Ends == { <<>>, <<":">>, <<":", " ", "m">>, <<":", " ", "m", ":", "n">>,
                  <<" ", "]">>, <<"]">>, <<":", " ", "m", "\r">>,
                  <<":", " ", "m", "(", "8", ")", ":", " ", "x">> }
    IN { head \o mid \o prio \o sep \o tag \o end :
           head \in Heads, mid \in Mids, prio \in Prios, sep \in Seps,
           tag \in Tags, end \in Ends }

\* formatLogEntry trimming the raw text it returns (not the program's)
formatLogEntryTrimmedRaw(entry) ==
    IF entry.priority \in {Undefined, <<>>} THEN trim(entry.raw)
    ELSE join(<<entry.priority, entry.message>>, " ")

\* formatLogEntry: raw for a record without priority, otherwise the fields
\* present joined by single blanks, pid and tid padded to five characters
formatLogEntry(entry) ==
    LET truthy(str) == str # Undefined /\ str # <<>>
        padStart(str, n) == [k \in 1..(n - Len(str)) |-> " "] \o str
        part(present, str) == IF present THEN <<str>> ELSE <<>>
        parts == part(truthy(entry.timestampStr), entry.timestampStr)
                 \o part(entry.pid # Undefined, padStart(entry.pid, 5))
                 \o part(entry.tid # Undefined, padStart(entry.tid, 5))
                 \o <<entry.priority>>
                 \o part(truthy(entry.tag), entry.tag \o <<":">>)
                 \o part(entry.message # Undefined, entry.message)
    IN IF ~truthy(entry.priority) THEN entry.raw ELSE join(parts, " ")

\* records built by a caller rather than returned by parseLogLine: every
\* field present or absent on its own, the tag and the message also empty
BuiltEntries ==
    { [raw |-> raw, lineNumber |-> 1,
       timestamp |-> IF stamped THEN parseTimestamp(Stamp) ELSE Undefined,
       timestampStr |-> IF stamped THEN Stamp ELSE Undefined,
       pid |-> pid, tid |-> tid, priority |-> priority, tag |-> tag,
       message |-> message] :
        raw \in {<<>>, LineRaw, LineE}, stamped \in BOOLEAN,
        pid \in {Undefined, <<"7">>}, tid \in {Undefined, <<"1", "2", "3", "4", "5", "6">>},
        priority \in {Undefined, <<"I">>},
        tag \in {Undefined, <<>>, <<"T">>}, message \in {Undefined, <<>>, <<"m">>} }

\* a call of parseLogLine about to be made, or a record built by a caller
ParserInit ==
    /\ \/ /\ pLine \in ParserLines \cup { <<>> }
          /\ pNumber \in 1..MaxLineNumber
          /\ pEntry = LogEntry(<<>>, 0)
          /\ ppc = "parse"
       \/ /\ pLine = <<>>
          /\ pNumber = 0
          /\ pEntry \in BuiltEntries
          /\ ppc = "built"
    /\ pFormatted = <<>>
    /\ pText = <<>>
    /\ pEntries = <<>>
    /\ pArg = "none"
    /\ pResult = <<>>
    /\ pNewDoc = <<>>
    /\ EditorAtRest
    /\ fExpr = <<>>
    /\ fValue = <<>>
    /\ fTerms = <<>>
    /\ fResult = "none"
    /\ fpc = "idle"
    /\ SessionAtRest("panel")

\* const entry = parseLogLine(line, lineNumber)
ParseLine ==
    /\ ppc = "parse"
    /\ pEntry' = parseLogLine(pLine, pNumber)
    /\ ppc' = "done"
    /\ UNCHANGED <<pLine, pNumber, pFormatted, pText, pEntries, pArg, pResult,
                   pNewDoc, editorVars, filterVars, hostVars, webVars, scrollVars, stepVars,
                   histVars, settled>>

\* formatLogEntry(entry), of a parsed or of a built record
FormatEntry ==
    /\ ppc \in {"done", "built"}
    /\ pFormatted' = formatLogEntry(pEntry)
    /\ ppc' = IF ppc = "done" THEN "formatted" ELSE "formatted:built"
    /\ UNCHANGED <<pLine, pNumber, pEntry, pText, pEntries, pArg, pResult,
                   pNewDoc, editorVars, filterVars, hostVars, webVars, scrollVars, stepVars,
                   histVars, settled>>

ParserNext == ParseLine \/ FormatEntry

ParserSpec == ParserInit /\ [][ParserNext]_vars

\* the formats in the order the specification gives them, and the match of
\* a line against the pattern of a format
FormatOrder == <<"standard", "time", "brief", "tag", "long">>

matchFormat(format, s) ==
    CASE format = "standard" -> matchStandard(s)
      [] format = "time" -> matchTime(s)
      [] format = "brief" -> matchBrief(s)
      [] format = "tag" -> matchTag(s)
      [] format = "long" -> matchLongHeader(s)

\* the formats whose pattern the line matches, and the first of them
matchingFormats(s) == {i \in 1..Len(FormatOrder) : matchFormat(FormatOrder[i], s).matched}
firstFormat(s) ==
    FormatOrder[CHOOSE i \in matchingFormats(s) : \A o \in matchingFormats(s) : i <= o]

\* for each format, the captured group each of its fields is taken from
FormatGroups ==
    ("standard" :> [timestampStr |-> 1, pid |-> 2, tid |-> 3, priority |-> 4,
                    tag |-> 5, message |-> 6]) @@
    ("time" :> [timestampStr |-> 1, priority |-> 2, tag |-> 3, pid |-> 4, message |-> 5]) @@
    ("brief" :> [priority |-> 1, tag |-> 2, pid |-> 3, message |-> 4]) @@
    ("tag" :> [priority |-> 1, tag |-> 2, message |-> 3]) @@
    ("long" :> [timestampStr |-> 1, pid |-> 2, tid |-> 3, priority |-> 4, tag |-> 5])

\* the parsed fields of a LogEntry
EntryFields == {"timestamp", "timestampStr", "pid", "tid", "priority", "tag", "message"}

\* C19: a line that matches at least one pattern is returned with the
\* fields of the first format, in the order standard, time, brief, tag,
\* long header, whose pattern it matches: each field of that format is
\* taken from its captured group (numbers parsed, the tag trimmed, the
\* time stamp parsed as well), and every field the format does not have is
\* absent.
C19_FirstFormatWins ==
    (ppc = "done" /\ matchingFormats(pLine) # {}) =>
        LET format == firstFormat(pLine)
            m == matchFormat(format, pLine).groups
            from == FormatGroups[format]
            Value(field) ==
                IF field = "timestamp"
                THEN (IF "timestampStr" \in DOMAIN from
                      THEN parseTimestamp(m[from.timestampStr]) ELSE Undefined)
                ELSE IF field \notin DOMAIN from THEN Undefined
                ELSE IF field \in {"pid", "tid"} THEN parseInt(m[from[field]])
                ELSE IF field = "tag" THEN trim(m[from[field]])
                ELSE m[from[field]]
        IN /\ pEntry.raw = pLine
           /\ pEntry.lineNumber = pNumber
           /\ \A field \in EntryFields : pEntry[field] = Value(field)

\* a line that matches the brief and the tag pattern has been parsed as brief
C19_Witness ==
    /\ ppc = "done"
    /\ matchBrief(pLine).matched
    /\ matchTag(pLine).matched
    /\ pEntry.pid = <<"7">>
    /\ pEntry.tag = <<"T">>
    /\ pEntry.message = <<"m">>

\* C20: a line that matches none of the five patterns, the empty line
\* included, is returned as a record with raw the line itself, lineNumber
\* the given number and every other field absent.
C20_UnparsedIsRawOnly ==
    (ppc = "done" /\ matchingFormats(pLine) = {}) =>
        /\ pEntry.raw = pLine
        /\ pEntry.lineNumber = pNumber
        /\ \A field \in EntryFields : pEntry[field] = Undefined

\* a line with a time stamp, two numbers and a letter outside the priority
\* class has been returned unparsed
C20_Witness ==
    /\ ppc = "done"
    /\ pLine = Stamp \o <<" ", "1", " ", "0", "2", " ", "X", " ", "T", ":", " ", "m">>
    /\ pNumber = 2
    /\ pEntry = LogEntry(pLine, 2)


-----------------------------------------------------------------------------
(* Properties of the records the streaming view stores *)

\* C21: a record of the buffer whose line does not match the structured
\* pattern has no time stamp, pid or message and an empty tag, and its
\* priority is absent or a letter that stands between two white space
\* characters of the line.
C21_UnparsedNotFabricated ==
    \A i \in 1..Len(allLogs) :
        LET log == allLogs[i]
            Between(c) == \E k \in 1..(Len(log.raw) - 2) :
                             /\ log.raw[k] \in WhiteSpace
                             /\ <<log.raw[k + 1]>> = c
                             /\ log.raw[k + 2] \in WhiteSpace
        IN ~matchLogcatRegex(log.raw).matched =>
              /\ log.timestamp = Undefined
              /\ log.pid = Undefined
              /\ log.message = Undefined
              /\ log.tag \in {<<>>, Undefined}
              /\ (log.priority \in {Null, Undefined} \/ Between(log.priority))


\* C22: for a line in the standard, time, brief or tag format, the tag is
\* the text between the priority token's separator and the first colon
\* after the priority token, without a trailing (PID) and trimmed, and the
\* message is what follows that colon (after the white space the patterns
\* skip), whatever stands later in the line.
C22_SplitAtFirstColon ==
    (ppc = "done" /\ matchingFormats(pLine) # {} /\ firstFormat(pLine) # "long") =>
        LET s == pLine
            format == firstFormat(s)
            c == stampEnd(s, 1)
            \* index of the priority letter
            p == IF format = "standard"
                 THEN skipSet(s, skipSet(s, skipSet(s, skipSet(s,
                          skipSet(s, c, WhiteSpace), Digits), WhiteSpace), Digits), WhiteSpace)
                 ELSE IF format = "time" THEN skipSet(s, c, WhiteSpace)
                 ELSE 1
            q == indexFrom(s, p + 1, ":")
            before == trim(SubSeq(s, p + 2, q - 1))
            \* before without the trailing `(digits)' of the brief and time formats
            open == IF before # <<>> /\ before[Len(before)] = ")"
                    THEN CHOOSE k \in 0..Len(before) :
                            /\ k > 0 => before[k] = "("
                            /\ \A o \in (k + 1)..Len(before) : before[o] # "("
                    ELSE 0
            inside == SubSeq(before, open + 1, Len(before) - 1)
            digitsFrom == skipSet(inside, 1, WhiteSpace)
            hasPid == /\ format \in {"brief", "time"}
                      /\ open > 0
                      /\ digitsFrom <= Len(inside)
                      /\ skipSet(inside, digitsFrom, Digits) > Len(inside)
            tagText == IF hasPid THEN trim(SubSeq(before, 1, open - 1)) ELSE before
        IN /\ pEntry.tag = tagText
           /\ pEntry.message = SubSeq(s, skipSet(s, q + 1, WhiteSpace), Len(s))


-----------------------------------------------------------------------------
(* A document of log lines: parseLogcat, then one of the sort and filter   *)
(* functions applied to its records (applySortToDocument,                  *)
(* applyFilterToDocument)                                                   *)

\* at most this many lines in a text
MaxTextLines == 3

\* parseLogcat ignoring blank lines (not the program's)
parseLogcatSkippingBlank(text) ==
    LET lines == SelectSeq(split(text, "\n"), LAMBDA line : trim(line) # <<>>)
    IN [index \in 1..Len(lines) |-> parseLogLine(lines[index], index)]

\* const lines = text.split('\n');
\* return lines.map((line, index) => parseLogLine(line, index + 1));
parseLogcat(text) ==
    LET lines == split(text, "\n")
    IN [index \in 1..Len(lines) |-> parseLogLine(lines[index], index)]

\* the lines a text is made of: a blank line, a line in no format, two
\* threadtime lines at the same time with different priorities, an earlier
\* threadtime line, a tag-format line (priority without time stamp), a
\* line that ends with a carriage return, a tag-format line whose tag and
\* message hold a parenthesis, and a threadtime line with a blank tag and
\* an empty message
LogcatLines ==
    LET LineEarlier == <<"0", "1", "-", "1", "4", " ", "2", "3", ":", "5", "9", ":", "5", "9",
                         ".", "9", "9", "9", " ", "1", " ", "2", " ", "W", " ", "T", ":", " ", "m">>
        LineV == Stamp \o <<" ", "3", " ", "4", " ", "V", " ", "U", ":", " ", "n">>
        LineTag == <<"D", "/", "T", ":", " ", "m">>
        LineCR == <<"x", "\r">>
        LineParen == <<"D", "/", "(", "T", ":", " ", "(", "m">>
        LineBlank == Stamp \o <<" ", "1", " ", "2", " ", "I", " ", " ", ":">>
    IN { <<>>, LineRaw, LineE, LineV, LineEarlier, LineTag, LineCR, LineParen, LineBlank }

LogcatTexts ==
    { join(lines, "\n") : lines \in UNION { [1..n -> LogcatLines] : n \in 1..MaxTextLines } }

LogcatInit ==
    /\ pText \in LogcatTexts
    /\ ppc = "text"
    /\ pLine = <<>>
    /\ pNumber = 0
    /\ pEntry = LogEntry(<<>>, 0)
    /\ pFormatted = <<>>
    /\ pEntries = <<>>
    /\ pArg = "none"
    /\ pResult = <<>>
    /\ pNewDoc = <<>>
    /\ EditorAtRest
    /\ fExpr = <<>>
    /\ fValue = <<>>
    /\ fTerms = <<>>
    /\ fResult = "none"
    /\ fpc = "idle"
    /\ SessionAtRest("panel")

\* const entries = parseLogcat(text)
ParseText ==
    /\ ppc = "text"
    /\ pEntries' = parseLogcat(pText)
    /\ ppc' = "entries"
    /\ UNCHANGED <<pLine, pNumber, pEntry, pFormatted, pText, pArg, pResult,
                   pNewDoc, editorVars, filterVars, hostVars, webVars, scrollVars, stepVars,
                   histVars, settled>>

\* getPriorityLevel: V 0, D 1, I 2, W 3, E 4, F 5, S 6, and -1 for an
\* absent (or empty) priority
getPriorityLevel(priority) ==
    IF priority \in {Undefined, <<>>} THEN -1
    ELSE CHOOSE n \in 0..6 : <<"V", "D", "I", "W", "E", "F", "S">>[n + 1] = priority[1]

\* a sort that puts entries that compare equal in the reverse of their
\* input order (not the program's)
arraySortTiesReversed(entries, compareFn) ==
    LET n == Len(entries)
        before(i) == {j \in 1..n : compareFn[j, i] < 0 \/ (compareFn[j, i] = 0 /\ j > i)}
    IN [p \in 1..n |-> entries[CHOOSE i \in 1..n : Cardinality(before(i)) = p - 1]]

\* [...entries].sort(compareFn) for a consistent compareFn, given as the
\* table of its results on the positions of entries: the sort is stable, an
\* entry comes after those that compare lower and after the earlier ones
\* that compare equal
arraySort(entries, compareFn) ==
    LET n == Len(entries)
        before(i) == {j \in 1..n : compareFn[j, i] < 0 \/ (compareFn[j, i] = 0 /\ j < i)}
    IN [p \in 1..n |-> entries[CHOOSE i \in 1..n : Cardinality(before(i)) = p - 1]]

\* sortByTime whose direction also turns the records without time stamp
\* around (not the program's)
sortByTimeMissingTurned(entries, ascending) ==
    LET missing(e) == IF e.timestamp = Undefined THEN 1 ELSE 0
        forward == arraySort(entries, [i, j \in 1..Len(entries) |->
                                          missing(entries[i]) - missing(entries[j])])
    IN IF ascending THEN forward
       ELSE [p \in 1..Len(forward) |-> forward[Len(forward) + 1 - p]]

\* sortByTime: the time of a record is that of new Date(year, month index,
\* day, hours, minutes, seconds, ms) in milliseconds since the year began
\* (a year without leap day, month index 0..11)
sortByTime(entries, ascending) ==
    LET daysBefore == <<0, 31, 59, 90, 120, 151, 181, 212, 243, 273, 304, 334>>
        getTime(t) == ((((daysBefore[t[1] + 1] + t[2]) * 24 + t[3]) * 60 + t[4]) * 60
                       + t[5]) * 1000 + t[6]
        compare(a, b) ==
            IF a.timestamp = Undefined /\ b.timestamp = Undefined THEN 0
            ELSE IF a.timestamp = Undefined THEN 1
            ELSE IF b.timestamp = Undefined THEN -1
            ELSE LET diff == getTime(a.timestamp) - getTime(b.timestamp)
                 IN IF ascending THEN diff ELSE -diff
    IN arraySort(entries, [i, j \in 1..Len(entries) |-> compare(entries[i], entries[j])])

\* sortByPriority without its direction (not the program's)
sortByPriorityAscending(entries, ascending) ==
    arraySort(entries, [i, j \in 1..Len(entries) |->
                          getPriorityLevel(entries[i].priority)
                              - getPriorityLevel(entries[j].priority)])

\* sortByPriority
sortByPriority(entries, ascending) ==
    LET compare(a, b) ==
            LET diff == getPriorityLevel(a.priority) - getPriorityLevel(b.priority)
            IN IF ascending THEN diff ELSE -diff
    IN arraySort(entries, [i, j \in 1..Len(entries) |-> compare(entries[i], entries[j])])

\* filterByPriority keeping only the levels above the minimum (not the
\* program's)
filterByPriorityAbove(entries, minPriority) ==
    SelectSeq(entries, LAMBDA entry :
        getPriorityLevel(entry.priority) > getPriorityLevel(minPriority))

\* filterByPriority
filterByPriority(entries, minPriority) ==
    LET minLevel == getPriorityLevel(minPriority)
    IN SelectSeq(entries, LAMBDA entry : getPriorityLevel(entry.priority) >= minLevel)

\* sortByTag.  a.localeCompare(b) is modelled for the characters of the
\* model's tags in the order of the root collation: punctuation before
\* digits before letters, a letter before the next one whatever its case,
\* and, between strings that differ in case only, lower case first
sortByTag(entries, ascending) ==
    LET Collation == <<" ", "_", "-", ",", ";", ":", "!", "?", "/", ".", "(", ")",
                       "0", "1", "2", "3", "4", "5", "6", "7", "8", "9">> \o LowerChars
        key(c) == IF \E k \in 1..Len(Collation) : Collation[k] = LowerChar(c)
                  THEN CHOOSE k \in 1..Len(Collation) : Collation[k] = LowerChar(c)
                  ELSE 0
        case(c) == IF LowerChar(c) = c THEN 0 ELSE 1
        firstDiff(x, y, weight(_)) ==
            LET common == IF Len(x) < Len(y) THEN Len(x) ELSE Len(y)
                differ == {k \in 1..common : weight(x[k]) # weight(y[k])}
            IN IF differ = {} THEN Len(x) - Len(y)
               ELSE LET k == CHOOSE d \in differ : \A o \in differ : d <= o
                    IN weight(x[k]) - weight(y[k])
        localeCompare(x, y) ==
            LET primary == firstDiff(x, y, key)
                diff == IF primary # 0 THEN primary ELSE firstDiff(x, y, case)
            IN IF diff < 0 THEN -1 ELSE IF diff > 0 THEN 1 ELSE 0
        tagOf(e) == IF e.tag = Undefined THEN <<>> ELSE e.tag
        compare(a, b) ==
            LET diff == localeCompare(tagOf(a), tagOf(b))
            IN IF ascending THEN diff ELSE -diff
    IN arraySort(entries, [i, j \in 1..Len(entries) |-> compare(entries[i], entries[j])])

\* filterByTag: the callback of the try block keeps a record when
\* entry.tag && regex.test(entry.tag) is truthy, the one of the catch block
\* when entry.tag === tagPattern
filterByTag(entries, tagPattern) ==
    IF regexCompiles(tagPattern)
    THEN SelectSeq(entries, LAMBDA entry :
             /\ entry.tag \notin {Undefined, <<>>}
             /\ regexTest(tagPattern, entry.tag))
    ELSE SelectSeq(entries, LAMBDA entry : entry.tag = tagPattern)

\* filterByPid: entry.pid === pid
filterByPid(entries, pid) == SelectSeq(entries, LAMBDA entry : entry.pid = pid)

\* filterByMessage: entry.message && regex.test(entry.message), and in the
\* catch block entry.message && entry.message.includes(messagePattern)
filterByMessage(entries, messagePattern) ==
    IF regexCompiles(messagePattern)
    THEN SelectSeq(entries, LAMBDA entry :
             /\ entry.message \notin {Undefined, <<>>}
             /\ regexTest(messagePattern, entry.message))
    ELSE SelectSeq(entries, LAMBDA entry :
             /\ entry.message \notin {Undefined, <<>>}
             /\ includes(entry.message, messagePattern))

\* applySortToDocument with sort functions that sort the array they are
\* given, entries.sort(compare), instead of a copy (not the program's)
applySortToDocumentInPlace ==
    /\ ppc = "entries"
    /\ \E sortFn \in {"sortByTime", "sortByPriority", "sortByTag"}, ascending \in BOOLEAN :
          \E sortedEntries \in
                 { IF sortFn = "sortByTime" THEN sortByTime(pEntries, ascending)
                   ELSE IF sortFn = "sortByPriority" THEN sortByPriority(pEntries, ascending)
                   ELSE sortByTag(pEntries, ascending) } :
             /\ pEntries' = sortedEntries
             /\ pResult' = sortedEntries
             /\ pNewDoc' = join(raws(sortedEntries), "\n")
             /\ pArg' = IF ascending THEN "asc" ELSE "desc"
             /\ ppc' = sortFn
    /\ UNCHANGED <<pLine, pNumber, pEntry, pFormatted, pText,
                   editorVars, filterVars, hostVars, webVars, scrollVars, stepVars,
                   histVars, settled>>

\* applySortToDocument after its parseLogcat, for the sort functions a
\* caller can pass: const sortedEntries = sortFn(entries); the document is
\* replaced by sortedEntries.map(e => e.raw).join('\n')
applySortToDocument ==
    /\ ppc = "entries"
    /\ \E sortFn \in {"sortByTime", "sortByPriority", "sortByTag"}, ascending \in BOOLEAN :
          \E sortedEntries \in
                 { IF sortFn = "sortByTime" THEN sortByTime(pEntries, ascending)
                   ELSE IF sortFn = "sortByPriority" THEN sortByPriority(pEntries, ascending)
                   ELSE sortByTag(pEntries, ascending) } :
             /\ pResult' = sortedEntries
             /\ pNewDoc' = join(raws(sortedEntries), "\n")
             /\ pArg' = IF ascending THEN "asc" ELSE "desc"
             /\ ppc' = sortFn
    /\ UNCHANGED <<pLine, pNumber, pEntry, pFormatted, pText, pEntries,
                   editorVars, filterVars, hostVars, webVars, scrollVars, stepVars,
                   histVars, settled>>

\* applyFilterToDocument after its parseLogcat, for the filter functions a
\* caller can pass: const filteredEntries = filterFn(entries); a new
\* document is opened with filteredEntries.map(e => e.raw).join('\n')
applyFilterToDocument ==
    /\ ppc = "entries"
    /\ \/ \E minPriority \in ParserPriorityLetters :
             /\ pResult' = filterByPriority(pEntries, <<minPriority>>)
             /\ pArg' = minPriority
             /\ ppc' = "filterByPriority"
       \/ \E tagPattern \in {<<>>, <<"t">>, <<"(", "T">>, <<"(", "t">>} :
             /\ pResult' = filterByTag(pEntries, tagPattern)
             /\ pArg' = tagPattern
             /\ ppc' = "filterByTag"
       \/ \E pid \in {<<"1">>, <<"3">>} :
             /\ pResult' = filterByPid(pEntries, pid)
             /\ pArg' = pid
             /\ ppc' = "filterByPid"
       \/ \E messagePattern \in {<<>>, <<"M">>, <<"(", "m">>, <<"(", "M">>} :
             /\ pResult' = filterByMessage(pEntries, messagePattern)
             /\ pArg' = messagePattern
             /\ ppc' = "filterByMessage"
    /\ pNewDoc' = join(raws(pResult'), "\n")
    /\ UNCHANGED <<pLine, pNumber, pEntry, pFormatted, pText, pEntries,
                   editorVars, filterVars, hostVars, webVars, scrollVars, stepVars,
                   histVars, settled>>

LogcatNext == ParseText \/ applySortToDocument \/ applyFilterToDocument

LogcatSpec == LogcatInit /\ [][LogcatNext]_vars

-----------------------------------------------------------------------------
(* The grammar of filter expressions *)

\* the comma-separated segments of the expression compiled, trimmed, that
\* yield a term: those that are not empty and are not a lone `-'
KeptSegments ==
    LET segs == split(fExpr, ",")
        Kept(seg) == trim(seg) # <<>> /\ trim(seg) # <<"-">>
    IN SelectSeq([i \in 1..Len(segs) |-> trim(segs[i])], Kept)

\* C24: the list compiled from an expression has one term for each segment
\* that is not empty after trimming and after removing a leading `-', in
\* segment order, and none for the others.  The term is negated exactly when
\* the trimmed segment starts with `-'.  With rest the segment after that
\* `-': when rest starts and ends with `/' and is longer than 2 characters
\* (and the pattern between the slashes compiles) the term is a pattern term
\* for that pattern, otherwise (rest not of that shape) it is a literal term
\* whose text is rest in lower case.  No term has an empty text and every
\* term has exactly one of text and pattern.
C24_TermGrammar ==
    fpc # "parse" /\ fpc # "idle" =>
        /\ Len(fTerms) = Len(KeptSegments)
        /\ \A i \in 1..Len(fTerms) :
              LET seg == KeptSegments[i]
                  rest == IF seg[1] = "-" THEN Tail(seg) ELSE seg
                  shaped == Len(rest) > 2 /\ rest[1] = "/" /\ rest[Len(rest)] = "/"
                  pattern == SubSeq(rest, 2, Len(rest) - 1)
              IN /\ fTerms[i].negated = (seg[1] = "-")
                 /\ (shaped /\ regexCompiles(pattern)) =>
                        fTerms[i].regex = pattern /\ fTerms[i].text = Undefined
                 /\ ~shaped =>
                        /\ fTerms[i].regex = Undefined
                        /\ fTerms[i].text = [k \in 1..Len(rest) |-> LowerChar(rest[k])]
                 /\ fTerms[i].text # <<>>
                 /\ (fTerms[i].text = Undefined) # (fTerms[i].regex = Undefined)

\* an expression of two segments, a negated pattern and a lone `-' or an
\* empty segment, compiled into the one negated pattern term
C24_Witness ==
    /\ fpc = "match"
    /\ Len(split(fExpr, ",")) = 2
    /\ Len(fTerms) = 1
    /\ fTerms[1].negated
    /\ fTerms[1].regex # Undefined

\* C25: compiling an expression always returns a list of terms.  A segment
\* that, trimmed and without its leading `-', has the shape of a pattern
\* that does not compile yields a literal term whose text is that whole
\* rest, both slashes included, in lower case, negated exactly when the
\* segment had the `-'; the term matches a value exactly when the value
\* holds that text as a substring, case ignored.
C25_BadPatternIsLiteral ==
    fpc # "parse" /\ fpc # "idle" =>
        /\ Len(fTerms) = Len(KeptSegments)
        /\ \A i \in 1..Len(fTerms) :
              LET seg == KeptSegments[i]
                  rest == IF seg[1] = "-" THEN Tail(seg) ELSE seg
                  shaped == Len(rest) > 2 /\ rest[1] = "/" /\ rest[Len(rest)] = "/"
                  pattern == SubSeq(rest, 2, Len(rest) - 1)
                  holds == \E o \in 0..(Len(fValue) - Len(rest)) :
                              \A k \in 1..Len(rest) :
                                  LowerChar(fValue[o + k]) = LowerChar(rest[k])
              IN /\ fTerms[i].negated \in BOOLEAN
                 /\ (shaped /\ ~regexCompiles(pattern)) =>
                        /\ fTerms[i].regex = Undefined
                        /\ fTerms[i].text = [k \in 1..Len(rest) |-> LowerChar(rest[k])]
                        /\ fTerms[i].negated = (seg[1] = "-")
                        /\ termMatches(fTerms[i], fValue) = holds
                        /\ (fpc = "done" /\ Len(fTerms) = 1) =>
                              fResult = (holds # fTerms[i].negated)

\* a negated pattern that does not compile was compiled into a negated
\* literal term, and a value that holds its text in another case was
\* rejected
C25_Witness ==
    /\ fpc = "done"
    /\ fExpr = <<"-", "/", "(", "B", "/">>
    /\ Len(fTerms) = 1
    /\ fTerms[1].negated
    /\ fTerms[1].text = <<"/", "(", "b", "/">>
    /\ fValue = <<"c", "/", "(", "b", "/">>
    /\ fResult = FALSE


-----------------------------------------------------------------------------
(* Formatting a record back to a line *)

\* C26: formatLogEntry of the record parseLogLine returns for a line that
\* matches none of the five patterns is that line, character for character;
\* and formatLogEntry of any record without priority, whatever its other
\* fields hold, is the record's raw.
C26_UnparsedFormatsToRaw ==
    /\ (ppc = "formatted" /\ matchingFormats(pLine) = {}) => pFormatted = pLine
    /\ (ppc \in {"formatted", "formatted:built"} /\ pEntry.priority = Undefined) =>
           pFormatted = pEntry.raw

\* a line with a blank at its end that matches no pattern has been parsed
\* and formatted
C26_Witness ==
    /\ ppc = "formatted"
    /\ matchingFormats(pLine) = {}
    /\ Len(pLine) > 1
    /\ pLine[Len(pLine)] \in WhiteSpace
    /\ pFormatted = pLine

\* C27: for a line that matches the standard pattern, the formatted record
\* matches the standard pattern again, and its parse has the same
\* timestamp, pid, tid, priority, tag and message as the parse of the line.
C27_StandardRoundTrip ==
    (ppc = "formatted" /\ matchStandard(pLine).matched) =>
        /\ matchStandard(pFormatted).matched
        /\ \A field \in {"timestamp", "pid", "tid", "priority", "tag", "message"} :
               parseLogLine(pFormatted, pNumber)[field] = pEntry[field]


-----------------------------------------------------------------------------
(* Filtering and sorting the records of a document *)

\* C28: filterByPriority returns exactly the records whose priority level
\* is at least the level of the minimum, in their original order: the p-th
\* record returned is the p-th record of entries with such a level.  A
\* record without priority is never returned, whatever the minimum.
C28_FilterKeepsAtLeastMin ==
    ppc = "filterByPriority" =>
        LET keep == {i \in 1..Len(pEntries) :
                        getPriorityLevel(pEntries[i].priority) >= getPriorityLevel(<<pArg>>)}
            nth(p) == CHOOSE i \in keep : Cardinality({j \in keep : j < i}) = p - 1
        IN /\ Len(pResult) = Cardinality(keep)
           /\ \A p \in 1..Len(pResult) : pResult[p] = pEntries[nth(p)]
           /\ \A p \in 1..Len(pResult) : pResult[p].priority # Undefined

\* of a verbose record, a warning record and an unparsed record, the
\* minimum W leaves exactly the warning record
C28_Witness ==
    /\ ppc = "filterByPriority"
    /\ pArg = "W"
    /\ Len(pEntries) = 3
    /\ {pEntries[i].priority : i \in 1..3} = {<<"V">>, <<"W">>, Undefined}
    /\ Len(pResult) = 1
    /\ pResult[1].priority = <<"W">>

\* C29: in the result of sortByTime, ascending or descending, no record
\* without a time stamp stands before a record with one, and the records
\* with time stamps stand in non-decreasing (ascending) or non-increasing
\* (descending) order of their time (month, day, hours, minutes, seconds,
\* milliseconds).
C29_SortByTimeOrder ==
    ppc = "sortByTime" =>
        LET stamped(e) == e.timestamp # Undefined
            \* time s is before time t
            earlier(s, t) == \E k \in 1..6 : /\ s[k] < t[k]
                                            /\ \A o \in 1..(k - 1) : s[o] = t[o]
        IN \A i, j \in 1..Len(pResult) :
              i < j =>
                 /\ ~(~stamped(pResult[i]) /\ stamped(pResult[j]))
                 /\ (stamped(pResult[i]) /\ stamped(pResult[j])) =>
                       IF pArg = "asc"
                       THEN ~earlier(pResult[j].timestamp, pResult[i].timestamp)
                       ELSE ~earlier(pResult[i].timestamp, pResult[j].timestamp)

\* a record without time stamp, an earlier and a later record, sorted
\* descending: the later one first, the one without time stamp last
C29_Witness ==
    /\ ppc = "sortByTime"
    /\ pArg = "desc"
    /\ Len(pEntries) = 3
    /\ pEntries[1].timestamp = Undefined
    /\ pEntries[2].timestamp # Undefined
    /\ pEntries[3].timestamp # Undefined
    /\ pEntries[2].timestamp[2] < pEntries[3].timestamp[2]
    /\ pResult = <<pEntries[3], pEntries[2], pEntries[1]>>

\* C30: the result of sortByPriority is ordered by priority level, V 0 to S
\* 6 and -1 for an absent priority: non-decreasing when ascending, so the
\* records without priority come first, and non-increasing when
\* descending, so they come last.
C30_SortByPriorityOrder ==
    ppc = "sortByPriority" =>
        LET levels == [priority \in {<<l>> : l \in ParserPriorityLetters} \cup {Undefined} |->
                          CASE priority = <<"V">> -> 0 [] priority = <<"D">> -> 1
                            [] priority = <<"I">> -> 2 [] priority = <<"W">> -> 3
                            [] priority = <<"E">> -> 4 [] priority = <<"F">> -> 5
                            [] priority = <<"S">> -> 6 [] OTHER -> -1]
        IN \A i, j \in 1..Len(pResult) :
              i < j =>
                 IF pArg = "asc"
                 THEN levels[pResult[i].priority] <= levels[pResult[j].priority]
                 ELSE levels[pResult[i].priority] >= levels[pResult[j].priority]

\* an unparsed record, a warning and an error record, sorted descending:
\* error, warning, and the unparsed record last
C30_Witness ==
    /\ ppc = "sortByPriority"
    /\ pArg = "desc"
    /\ Len(pEntries) = 3
    /\ pEntries[1].priority = Undefined
    /\ pEntries[2].priority = <<"W">>
    /\ pEntries[3].priority = <<"E">>
    /\ pResult = <<pEntries[3], pEntries[2], pEntries[1]>>


-----------------------------------------------------------------------------
(* The filter result as a function of the set of terms *)

\* C39: the result of matchesFilter for a value is the same for every list
\* that holds the same terms, in any order and with any of them repeated
\* (lists of up to one term more than the list compiled), and a list
\* extended by a negated term never accepts a value the list rejected.
C39_OnlyTheTermSet ==
    fpc = "done" =>
        LET termSet == {fTerms[i] : i \in 1..Len(fTerms)}
            sameSet == {list \in UNION { [1..n -> termSet] : n \in 0..(Len(fTerms) + 1) } :
                           {list[i] : i \in 1..Len(list)} = termSet}
            negatedTerms == {t \in {parseFilterTerm(seg) : seg \in FilterSegments} :
                                t # NullTerm /\ t.negated}
        IN /\ \A list \in sameSet : matchesFilter(fValue, list) = fResult
           /\ fResult = FALSE =>
                 \A t \in negatedTerms :
                     /\ matchesFilter(fValue, Append(fTerms, t)) = FALSE
                     /\ matchesFilter(fValue, <<t>> \o fTerms) = FALSE

\* a positive term that matches comes before a negated term that matches,
\* and the value was rejected
C39_Witness ==
    /\ fpc = "done"
    /\ Len(fTerms) = 2
    /\ ~fTerms[1].negated /\ termMatches(fTerms[1], fValue)
    /\ fTerms[2].negated /\ termMatches(fTerms[2], fValue)
    /\ fResult = FALSE
    /\ matchesFilter(fValue, <<fTerms[2], fTerms[1], fTerms[2]>>) = FALSE


-----------------------------------------------------------------------------
(* A stretch of capture output on its way to the view: the host has posted *)
(* it as one 'log' message or, cut in two at any place, as two; the view    *)
(* appends what it receives.                                                *)

\* the capture output: one line in each of the five formats with each of
\* the seven priority letters, ended or not; two lines; and more short
\* lines than a buffer holds
StreamTexts ==
    LET FormatLines(p) ==
            { Stamp \o <<" ", "1", " ", "0", "2", " ", p, " ", "T", ":", " ", "m">>,
              Stamp \o <<" ", p, "/", "T", "(", "7", ")", ":", " ", "m">>,
              <<p, "/", "T", "(", "7", ")", ":", " ", "m">>,
              <<p, "/", "T", ":", " ", "m">>,
              <<"[", " ">> \o Stamp \o <<" ", "1", ":", " ", "2", " ", p, "/", "T", " ", "]">> }
    IN UNION { FormatLines(p) : p \in ParserPriorityLetters }
       \cup { <<"I", "/", "T", ":", " ", "m", "\n">>,
              <<"I", "/", "T", ":", " ", "m", "\n", "o", "o", "\n">>,
              <<"a", "\n", "b", "\n", "c", "\n", "d", "\n", "e", "\n", "f", "\n">> }

StreamInit ==
    /\ view \in {"sidebar", "panel"}
    /\ pText \in StreamTexts
    /\ \E cut \in 1..Len(pText) :
          toView = IF cut = Len(pText) THEN <<Msg("log", pText)>>
                   ELSE <<Msg("log", SubSeq(pText, 1, cut)),
                          Msg("log", SubSeq(pText, cut + 1, Len(pText)))>>
    /\ adbProcess = 0
    /\ procs = <<>>
    /\ toHost = <<>>
    /\ allLogs = <<>>
    /\ isRunning = TRUE
    /\ statusText = statusOf(view, TRUE)
    /\ renderPending = FALSE
    /\ levelFilter = "V"
    /\ tagFilter = <<>>
    /\ searchFilter = <<>>
    /\ shown = <<>>
    /\ logCount = <<0, 0>>
    /\ autoScroll = TRUE
    /\ scrollGap = "bottom"
    /\ addPc = "idle"
    /\ chunk = <<>>
    /\ appended = <<>>
    /\ emitted = 0
    /\ settled = <<>>
    /\ lastOp = "init"
    /\ pLine = <<>>
    /\ pNumber = 0
    /\ pEntry = LogEntry(<<>>, 0)
    /\ ppc = "idle"
    /\ pFormatted = <<>>
    /\ pEntries = <<>>
    /\ pArg = "none"
    /\ pResult = <<>>
    /\ pNewDoc = <<>>
    /\ EditorAtRest
    /\ fExpr = <<>>
    /\ fValue = <<>>
    /\ fTerms = <<>>
    /\ fResult = "none"
    /\ fpc = "idle"

StreamNext == AddLogsPush \/ AddLogsTrim \/ AddLogsRender \/ RenderFrame

StreamSpec == StreamInit /\ [][StreamNext]_vars

\* C35: every record in the buffer whose line is in one of the five formats
\* has the priority, tag, pid, tid and message parseLogLine returns for that
\* line (a field absent in one is absent in the other; pid and tid are
\* compared as numbers).
C35_StoredAsLineParser ==
    \A i \in 1..Len(allLogs) :
        LET log == allLogs[i]
            entry == parseLogLine(log.raw, i)
            absent(x) == x \in {Undefined, Null}
            same(x, y) == IF absent(x) \/ absent(y) THEN absent(x) /\ absent(y) ELSE x = y
            sameNumber(x, y) == IF absent(x) \/ absent(y) THEN absent(x) /\ absent(y)
                                ELSE parseInt(x) = y
        IN matchingFormats(log.raw) # {} =>
              /\ same(log.priority, entry.priority)
              /\ same(log.tag, entry.tag)
              /\ sameNumber(log.pid, entry.pid)
              /\ sameNumber(log.tid, entry.tid)
              /\ same(log.message, entry.message)

\* C38: once everything posted has been appended, the buffer holds what one
\* append of the whole output gives, wherever the output was cut.
C38_ChunkingIrrelevant ==
    (toView = <<>> /\ addPc = "idle") => allLogs = addLogs(view, <<>>, pText)


-----------------------------------------------------------------------------
(* The running flag of the view against the capture process of the host *)

\* C36: in every state where nothing is on its way (every message posted
\* has been delivered and handled, every command of the view has been
\* handled, and every process that has ended has had its events raised) the
\* view's running flag is set exactly when the host holds a running capture
\* process; in particular no running capture is shown as stopped.
C36_RunningFlagAgrees ==
    (/\ toView = <<>> /\ toHost = <<>> /\ addPc = "idle"
     /\ \A p \in 1..Len(procs) : procs[p].st = "live" \/ procs[p].closed) =>
        /\ isRunning = (adbProcess # 0 /\ procs[adbProcess].st = "live")
        /\ (\E p \in 1..Len(procs) : procs[p].st = "live") => isRunning


\* C31: sortByTime, sortByPriority and sortByTag are stable in both
\* directions: the result holds every record of the input once, two records
\* with the same key (the same time stamp or none, the same priority level,
\* the same tag or none) are in the result in their input order, and sorting
\* the result again by the same key and direction returns it unchanged.
C31_SortsAreStable ==
    ppc \in {"sortByTime", "sortByPriority", "sortByTag"} =>
        LET tagOf(e) == IF e.tag = Undefined THEN <<>> ELSE e.tag
            sameKey(a, b) ==
                IF ppc = "sortByTime" THEN a.timestamp = b.timestamp
                ELSE IF ppc = "sortByPriority"
                     THEN getPriorityLevel(a.priority) = getPriorityLevel(b.priority)
                     ELSE tagOf(a) = tagOf(b)
            pos(i) == CHOOSE p \in 1..Len(pResult) : pResult[p] = pEntries[i]
            again == IF ppc = "sortByTime" THEN sortByTime(pResult, pArg = "asc")
                     ELSE IF ppc = "sortByPriority" THEN sortByPriority(pResult, pArg = "asc")
                     ELSE sortByTag(pResult, pArg = "asc")
        IN /\ Len(pResult) = Len(pEntries)
           /\ \A i \in 1..Len(pEntries) : \E p \in 1..Len(pResult) : pResult[p] = pEntries[i]
           /\ \A i, j \in 1..Len(pEntries) :
                  (i < j /\ sameKey(pEntries[i], pEntries[j])) => pos(i) < pos(j)
           /\ again = pResult

\* a descending sort by tag has moved a record past two records with the
\* same tag, which are still in their input order
C31_Witness ==
    /\ ppc = "sortByTag"
    /\ pArg = "desc"
    /\ Len(pEntries) = 3
    /\ pEntries[1].tag = <<"T">>
    /\ pEntries[2].tag = <<"U">>
    /\ pEntries[3].tag = <<"T">>
    /\ pResult = <<pEntries[2], pEntries[1], pEntries[3]>>


\* C32: after a sort or a filter the input is still the parse of the
\* document's text; the result of a sortBy* holds the records of the input,
\* each once, and the result of a filterBy* holds records of the input in
\* their input order; the text applySortToDocument replaces the document by
\* has the lines of the document, each as often as the document has it, and
\* the document applyFilterToDocument opens is empty or has some of those
\* lines in their order.
C32_InputKeptOutputFromInput ==
    ppc \in {"sortByTime", "sortByPriority", "sortByTag",
             "filterByPriority", "filterByTag", "filterByPid", "filterByMessage"} =>
        LET sorting == ppc \in {"sortByTime", "sortByPriority", "sortByTag"}
            oldLines == split(pText, "\n")
            newLines == split(pNewDoc, "\n")
            increasing(f, n) == \A p, q \in 1..n : p < q => f[p] < f[q]
            injective(f, n) == \A p, q \in 1..n : p # q => f[p] # f[q]
            from(out, in) ==
                {f \in [1..Len(out) -> 1..Len(in)] : \A p \in 1..Len(out) : out[p] = in[f[p]]}
        IN /\ pEntries = parseLogcat(pText)
           /\ sorting =>
                 /\ Len(pResult) = Len(pEntries)
                 /\ \E f \in from(pResult, pEntries) : injective(f, Len(pResult))
                 /\ Len(newLines) = Len(oldLines)
                 /\ \E f \in from(newLines, oldLines) : injective(f, Len(newLines))
           /\ ~sorting =>
                 /\ \E f \in from(pResult, pEntries) : increasing(f, Len(pResult))
                 /\ IF pResult = <<>> THEN pNewDoc = <<>>
                    ELSE \E f \in from(newLines, oldLines) : increasing(f, Len(newLines))

\* an ascending sort by tag has replaced a document of three different
\* lines by the same lines in another order
C32_Witness ==
    /\ ppc = "sortByTag"
    /\ pArg = "asc"
    /\ Len(pEntries) = 3
    /\ pResult = <<pEntries[3], pEntries[1], pEntries[2]>>
    /\ pEntries = parseLogcat(pText)
    /\ split(pNewDoc, "\n") = <<split(pText, "\n")[3], split(pText, "\n")[1], split(pText, "\n")[2]>>
    /\ pNewDoc # pText


\* C33: filterByTag returns, in their order, the records whose tag matches
\* the pattern as a case-insensitive regular expression when the pattern
\* compiles, and the records whose tag is the pattern string when it does
\* not compile.
C33_FilterByTagResult ==
    ppc = "filterByTag" =>
        LET hasTag(e) == e.tag # Undefined
            keep(e) == IF regexCompiles(pArg) THEN hasTag(e) /\ regexTest(pArg, e.tag)
                       ELSE hasTag(e) /\ e.tag = pArg
        IN pResult = SelectSeq(pEntries, keep)


\* C34: filterByMessage returns, in their order, the records whose message
\* (the empty message included) matches the pattern as a case-insensitive
\* regular expression when the pattern compiles, and the records whose
\* message holds the pattern as a substring, case-sensitively, when it does
\* not compile.
C34_FilterByMessageResult ==
    ppc = "filterByMessage" =>
        LET hasMessage(e) == e.message # Undefined
            keep(e) == IF regexCompiles(pArg) THEN hasMessage(e) /\ regexTest(pArg, e.message)
                       ELSE hasMessage(e) /\ includes(e.message, pArg)
        IN pResult = SelectSeq(pEntries, keep)


-----------------------------------------------------------------------------
(* Live capture to an editor document: startCaptureToEditor.  A chunk is   *)
(* [kind, n]: the n-th 'data' event of the process, of stdout ("out") or   *)
(* of stderr ("err", written with the prefix [ERROR]); the footer is       *)
(* [kind |-> "footer", n |-> 0].  The live document is the sequence of the *)
(* chunks inserted after its header.  An edit in flight is [at, text,      *)
(* then]: the position computed when it was built (the end of the document *)
(* at that time), the text to insert, and what runs when applyEdit         *)
(* resolves: the rest of a flushBuffer called by the timer ("flush") or by *)
(* the 'close' handler ("closeFlush"), or nothing ("footer").  Edits are   *)
(* applied in the order of their calls.                                    *)

MaxEditorChunks == 3

\* the capture has been started: the document is open, the process spawned
\* and the handlers registered
EditorInit ==
    /\ edProcess = "running"
    /\ liveDocument = TRUE
    /\ buffer = <<>>
    /\ updateTimeout = FALSE
    /\ timerArmed = FALSE
    /\ edits = <<>>
    /\ docText = <<>>
    /\ chunksOut = 0
    /\ ParserAtRest
    /\ fExpr = <<>>
    /\ fValue = <<>>
    /\ fTerms = <<>>
    /\ fResult = "none"
    /\ fpc = "idle"
    /\ SessionAtRest("panel")

\* adbProcess.stdout.on('data') and adbProcess.stderr.on('data'): the
\* streams deliver until 'close' is raised, also after kill()
OnData ==
    /\ edProcess \in {"running", "killed"}
    /\ chunksOut < MaxEditorChunks
    /\ \E kind \in {"out", "err"} :
          buffer' = Append(buffer, [kind |-> kind, n |-> chunksOut + 1])
    /\ chunksOut' = chunksOut + 1
    /\ updateTimeout' = TRUE
    /\ timerArmed' = (timerArmed \/ ~updateTimeout)
    /\ UNCHANGED <<edProcess, liveDocument, edits, docText,
                   filterVars, parseVars, hostVars, webVars, scrollVars, stepVars,
                   histVars, settled>>

\* the timer of setTimeout(flushBuffer, updateInterval) fires: flushBuffer
\* up to its await, or to its end when there is nothing to write
FlushTimer ==
    /\ timerArmed
    /\ timerArmed' = FALSE
    /\ IF buffer # <<>> /\ liveDocument
       THEN /\ edits' = Append(edits, [at |-> Len(docText), text |-> buffer, then |-> "flush"])
            /\ UNCHANGED updateTimeout
       ELSE /\ updateTimeout' = FALSE
            /\ UNCHANGED edits
    /\ UNCHANGED <<edProcess, liveDocument, buffer, docText, chunksOut,
                   filterVars, parseVars, hostVars, webVars, scrollVars, stepVars,
                   histVars, settled>>

\* applyEdit resolves: the text is in the document at the edit's position;
\* a flushBuffer goes on after its await (buffer = ''; updateTimeout = null)
\* and, for the one of the 'close' handler, the callback of then() appends
\* the footer if (liveDocument)
EditApplied ==
    /\ edits # <<>>
    /\ \E e \in {Head(edits)} :
          /\ docText' = SubSeq(docText, 1, e.at) \o e.text
                            \o SubSeq(docText, e.at + 1, Len(docText))
          /\ IF e.then = "footer"
             THEN /\ edits' = Tail(edits)
                  /\ UNCHANGED <<buffer, updateTimeout>>
             ELSE /\ buffer' = <<>>
                  /\ updateTimeout' = FALSE
                  /\ edits' = IF e.then = "closeFlush" /\ liveDocument
                              THEN Append(Tail(edits),
                                          [at |-> Len(docText'),
                                           text |-> <<[kind |-> "footer", n |-> 0]>>,
                                           then |-> "footer"])
                              ELSE Tail(edits)
    /\ UNCHANGED <<edProcess, liveDocument, timerArmed, chunksOut,
                   filterVars, parseVars, hostVars, webVars, scrollVars, stepVars,
                   histVars, settled>>

\* adbProcess.on('close'): clearTimeout, flushBuffer() up to its await (or
\* to its end, and then the callback of then() runs once the handler has
\* returned), cleanup()
OnClose ==
    /\ edProcess \in {"running", "killed"}
    /\ edProcess' = "closed"
    /\ timerArmed' = FALSE
    /\ liveDocument' = FALSE
    /\ IF buffer # <<>> /\ liveDocument
       THEN /\ edits' = Append(edits, [at |-> Len(docText), text |-> buffer,
                                       then |-> "closeFlush"])
            /\ UNCHANGED updateTimeout
       ELSE /\ updateTimeout' = FALSE
            /\ edits' = IF liveDocument'
                        THEN Append(edits, [at |-> Len(docText),
                                            text |-> <<[kind |-> "footer", n |-> 0]>>,
                                            then |-> "footer"])
                        ELSE edits
    /\ UNCHANGED <<buffer, docText, chunksOut,
                   filterVars, parseVars, hostVars, webVars, scrollVars, stepVars,
                   histVars, settled>>

\* stopLiveCapture while the capture runs: adbProcess.kill(), cleanup()
stopLiveCapture ==
    /\ edProcess = "running"
    /\ edProcess' = "killed"
    /\ liveDocument' = FALSE
    /\ UNCHANGED <<buffer, updateTimeout, timerArmed, edits, docText, chunksOut,
                   filterVars, parseVars, hostVars, webVars, scrollVars, stepVars,
                   histVars, settled>>

EditorNext == OnData \/ FlushTimer \/ EditApplied \/ OnClose \/ stopLiveCapture

EditorSpec == EditorInit /\ [][EditorNext]_vars

\* C37: once the capture process has closed and no timer or edit is
\* outstanding, the live document holds every chunk the process emitted,
\* once and in the order of arrival, followed by the footer.
C37_EveryChunkOnceThenFooter ==
    (edProcess = "closed" /\ edits = <<>> /\ ~timerArmed) =>
        /\ Len(docText) = chunksOut + 1
        /\ \A k \in 1..chunksOut : docText[k].kind # "footer" /\ docText[k].n = k
        /\ docText[chunksOut + 1].kind = "footer"

====
